---------------------------- MODULE Spec2Model ----------------------------
(***************************************************************************)
(* Radio transmission between spacecraft: the global transmission medium   *)
(* (global_system.py) and the local radio system of every spacecraft       *)
(* (local_system.py), over the value types of auxiliary_classes.py.        *)
(*                                                                         *)
(* Frequencies are Python floats.  They are modelled in fixed point, in    *)
(* units of half a MHz, so that int(frequency) (the key of the reception   *)
(* dictionaries) is a real truncation: MHz(100) = 200, 201 is 100.5 MHz.   *)
(***************************************************************************)
EXTENDS Integers, Sequences, FiniteSets, TLC

VARIABLES
    \* RadioTransmissionMediumSystem.__consumers: the ids, in registration order
    consumers,
    \* RadioTransmissionMediumConsumer, per consumer id
    properties,
    dict_id_receiver_signals_to_send,
    dict_frequency_signal_to_receive,
    listen_ether_tasks,
    dict_getting_information,
    \* RadiotransmissionSystem, per spacecraft (the id of its global consumer)
    antennas,
    list_transmission_channel,
    dict_reception_channel,
    dict_reception_channel_from_prev_step,
    list_relay_channel,
    dict_signals_to_send,
    dict_id_device_memory_blocks_to_receive,
    duration_,
    \* the last call: its name, the exception it raised, the value it returned
    outcome,
    \* the number of calls the host has made so far
    host_calls,
    \* the calls of the host's script (test.py) made so far
    script

mediumVars == <<consumers, properties, dict_id_receiver_signals_to_send,
                dict_frequency_signal_to_receive, listen_ether_tasks,
                dict_getting_information>>

localVars == <<antennas, list_transmission_channel, dict_reception_channel,
               dict_reception_channel_from_prev_step, list_relay_channel,
               dict_signals_to_send, dict_id_device_memory_blocks_to_receive,
               duration_>>

vars == <<consumers, properties, dict_id_receiver_signals_to_send,
          dict_frequency_signal_to_receive, listen_ether_tasks,
          dict_getting_information, antennas, list_transmission_channel,
          dict_reception_channel, dict_reception_channel_from_prev_step,
          list_relay_channel, dict_signals_to_send,
          dict_id_device_memory_blocks_to_receive, duration_, outcome,
          host_calls, script>>

(***************************************************************************)
(* Values                                                                  *)
(***************************************************************************)

\* Python's None (an Optional field that is not set)
None == -9

\* FrequencyType: a float, kept in units of 1/FrequencyUnit MHz
FrequencyUnit == 2

MHz(x) == x * FrequencyUnit

\* int(frequency): truncation (frequencies are not negative)
int(frequency) == frequency \div FrequencyUnit

\* Python's "a or b" on an Optional[float]: None and 0 are both false
Or(a, b) == IF a = None \/ a = 0 THEN b ELSE a

\* Python's truth value of an Optional[float]
Truthy(a) == a # None /\ a # 0

MemoryBlock(memory_id, block_start, block_end) ==
    [memory_id |-> memory_id, block_start |-> block_start, block_end |-> block_end]

size(memory) == memory.block_end - memory.block_start

Radiosignal(id_transmitter, id_receiver, memory, frequency, id_antenna_receiver) ==
    [id_transmitter |-> id_transmitter, id_receiver |-> id_receiver,
     memory |-> memory, frequency |-> frequency,
     id_antenna_receiver |-> id_antenna_receiver]

ListenEtherTask(frequency_recipiency, id_antenna_receiver, frequency_transmission_relay, id_destination_relay, id_antenna_destination_relay, save_relayed_signals_locally_relay) ==
    [frequency_recipiency |-> frequency_recipiency,
     id_antenna_receiver |-> id_antenna_receiver,
     frequency_transmission_relay |-> frequency_transmission_relay,
     id_destination_relay |-> id_destination_relay,
     id_antenna_destination_relay |-> id_antenna_destination_relay,
     save_relayed_signals_locally_relay |-> save_relayed_signals_locally_relay]

\* "x in list" with the class's __eq__ (all fields compared)
InList(x, list) == \E i \in 1..Len(list) : list[i] = x

(***************************************************************************)
(* A Python dict whose values are lists: the entries in insertion order    *)
(***************************************************************************)

DictHas(d, k) == \E i \in 1..Len(d) : d[i].key = k

\* d.get(k, [])
DictGet(d, k) ==
    IF DictHas(d, k) THEN d[CHOOSE i \in 1..Len(d) : d[i].key = k].value ELSE <<>>

\* d.setdefault(k, []); d[k].append(v)
DictAppend(d, k, v) ==
    IF DictHas(d, k)
    THEN [i \in 1..Len(d) |->
            IF d[i].key = k THEN [key |-> k, value |-> Append(d[i].value, v)]
            ELSE d[i]]
    ELSE Append(d, [key |-> k, value |-> <<v>>])

RECURSIVE DictValues(_)
\* the values' elements, in the order "for k in d: for x in d[k]" visits them
DictValues(d) == IF d = <<>> THEN <<>> ELSE d[1].value \o DictValues(Tail(d))

(***************************************************************************)
(* The configuration the model is run with                                *)
(***************************************************************************)

\* the consumer ids of the three spacecraft (test.py: id_consumer=1, 2, 3)
Spacecraft == {1, 2, 3}

\* the consumer ids: those of the spacecraft and a fourth one, for the chains
\* of two relays
Ids == Spacecraft \cup {4}

\* RadioTransmissionMediumConsumerProperties.frequency of each consumer
ConsumerFrequency(id) == IF id = 3 THEN MHz(150) ELSE MHz(100)

Registered(id) == InList(id, consumers)

(***************************************************************************)
(* RadioTransmissionMediumConsumer                                         *)
(***************************************************************************)

\* a variant that accepts a signal to the consumer itself, which
\* C15_SelfAddressed rules out
send_signal_rejects_never(id_transmitter, id_receiver) == FALSE

\* "if id_transmitter == id_receiver: return False"
send_signal_rejects(id_transmitter, id_receiver) == id_transmitter = id_receiver

\* consumer.send_signal(id_receiver, memory, frequency, id_antenna_receiver) on
\* the consumer c whose dict_id_receiver_signals_to_send is d: the dictionary
\* after the call and the value returned
send_signal(d, c, id_receiver, memory, frequency, id_antenna_receiver) ==
    IF send_signal_rejects(c, id_receiver)
    THEN [dict |-> d, returned |-> FALSE]
    ELSE [dict |-> DictAppend(d, id_receiver,
                              Radiosignal(c, id_receiver, memory,
                                          Or(frequency, properties[c]),
                                          id_antenna_receiver)),
          returned |-> TRUE]

\* a variant that looks the frequency up as it is given, without int(), which
\* C21_RoundTrip rules out
receive_signal_untruncated(c, frequency) ==
    DictGet(dict_frequency_signal_to_receive[c], Or(frequency, properties[c]))

\* consumer.receive_signal(frequency): a read
receive_signal(c, frequency) ==
    DictGet(dict_frequency_signal_to_receive[c], int(Or(frequency, properties[c])))

\* a variant that appends the task whether it is in the list or not, which
\* C19_ListenOnce rules out
listen_ether_again(tasks, c, id_antenna_receiver, frequency_recipiency) ==
    [tasks |-> Append(tasks,
                      ListenEtherTask(Or(frequency_recipiency, properties[c]),
                                      id_antenna_receiver, None, None, None, FALSE)),
     returned |-> TRUE]

\* consumer.listen_ether(id_antenna_receiver, frequency_recipiency) on the
\* consumer c whose listen_ether_tasks is tasks
listen_ether(tasks, c, id_antenna_receiver, frequency_recipiency) ==
    LET task == ListenEtherTask(Or(frequency_recipiency, properties[c]),
                                id_antenna_receiver, None, None, None, FALSE)
    IN  IF ~InList(task, tasks)
        THEN [tasks |-> Append(tasks, task), returned |-> TRUE]
        ELSE [tasks |-> tasks, returned |-> FALSE]

\* consumer.i_am_repeater(...) on the consumer c whose listen_ether_tasks is tasks
i_am_repeater(tasks, c, id_destination_relay, id_antenna_receiver, id_antenna_destination_relay, frequency_recipiency, frequency_transmission_relay, save_relayed_signals_locally_relay) ==
    LET task == ListenEtherTask(Or(frequency_recipiency, properties[c]),
                                id_antenna_receiver,
                                Or(frequency_transmission_relay, properties[c]),
                                id_destination_relay,
                                id_antenna_destination_relay,
                                save_relayed_signals_locally_relay)
    IN  IF c = id_destination_relay
        THEN [tasks |-> tasks, returned |-> FALSE]
        ELSE [tasks |-> Append(tasks, task), returned |-> TRUE]

(***************************************************************************)
(* RadioTransmissionMediumSystem                                           *)
(***************************************************************************)

\* self.frequency_accuracy = FrequencyType(1e1)
frequency_accuracy == MHz(10)

Abs(x) == IF x < 0 THEN -x ELSE x

\* a variant with the inclusive comparison, which C4_FrequencyTolerance rules out
can_consumer_receive_signal_by_frequency_inclusive(signal_frequency, receiver_frequency) ==
    Abs(signal_frequency - receiver_frequency) <= frequency_accuracy

can_consumer_receive_signal_by_frequency(signal_frequency, receiver_frequency) ==
    Abs(signal_frequency - receiver_frequency) < frequency_accuracy

\* a variant where a signal without antenna id fits every antenna, which
\* C5_AntennaAddressing rules out
can_consumer_receive_signal_by_antenna_or_unset(signal_id_antenna, receiver_id_antenna) ==
    signal_id_antenna = None \/ signal_id_antenna = receiver_id_antenna

can_consumer_receive_signal_by_antenna(signal_id_antenna, receiver_id_antenna) ==
    signal_id_antenna = receiver_id_antenna

\* the depth of add_signal's recursion at which the model gives up (Python
\* raises RecursionError at sys.getrecursionlimit() frames)
RecursionLimit == 8

\* a variant without the cache's test, which C2_RelayLoopTerminates rules out
already_received_never(heap, list, s) == FALSE

\* a variant that looks for the object itself and not for an equal one, which
\* C3_Dedup rules out
already_received_same_object(heap, list, s) == \E j \in 1..Len(list) : list[j] = s

\* "signal not in recipient.dict_getting_information.setdefault(key, [])",
\* negated: the list holds the object itself or an object equal to it
already_received(heap, list, s) == \E j \in 1..Len(list) : heap[list[j]] = heap[s]

\* a variant that leaves the antenna id as it was, which C36_RelayRewriting
\* rules out
relayed_to_same_antenna(signal, listener) ==
    [signal EXCEPT !.id_receiver = listener.id_destination_relay,
                   !.frequency = listener.frequency_transmission_relay]

\* a variant that leaves the frequency as it was, which C1_Scenario rules out
relayed_on_same_frequency(signal, listener) ==
    [signal EXCEPT !.id_receiver = listener.id_destination_relay,
                   !.id_antenna_receiver = listener.id_antenna_destination_relay]

\* the relay hop: the three fields add_signal rewrites in place
relayed(signal, listener) ==
    [signal EXCEPT !.id_receiver = listener.id_destination_relay,
                   !.frequency = listener.frequency_transmission_relay,
                   !.id_antenna_receiver = listener.id_antenna_destination_relay]

\* the record of one pass of add_signal's loop, kept for the properties: the
\* object and its fields at that moment, the task examined, the signals the
\* recipient had recorded under the task's key, and what add_signal did:
\* "mismatch" (the frequency or the antenna does not fit), "duplicate" (already
\* recorded), "relay" or "deposit"
Logged(st, s, recipient, listener, event) ==
    LET list == DictGet(st.getting[recipient], int(listener.frequency_recipiency))
    IN  [st EXCEPT !.log = Append(@,
            [object |-> s, signal |-> st.heap[s], recipient |-> recipient,
             listener |-> listener,
             recorded |-> [j \in 1..Len(list) |-> st.heap[list[j]]],
             event |-> event])]

\* a variant that lets a task without an antenna through, which
\* C22_MalformedTaskFatal rules out
id_antenna_receiver_is_None_ignored(listener) == FALSE

\* "assert listener.id_antenna_receiver is not None" fails
id_antenna_receiver_is_None(listener) == listener.id_antenna_receiver = None

\* a variant that keeps a copy of every relayed signal, which
\* C23_KeepLocalCopy rules out
save_relayed_signals_locally_always(listener) == TRUE

\* "if listener.save_relayed_signals_locally_relay"
save_relayed_signals_locally(listener) == listener.save_relayed_signals_locally_relay

RECURSIVE add_signal(_, _), add_signal_listeners(_, _, _, _)
\* a variant that raises for a receiver that is not registered, which
\* C17_UnknownReceiver rules out
add_signal_unregistered_raises(st, s) ==
    IF st.raised # "none" THEN st
    ELSE IF st.depth >= RecursionLimit THEN [st EXCEPT !.raised = "RecursionError"]
    ELSE LET entered == [st EXCEPT !.calls = @ + 1, !.depth = @ + 1]
             id_receiver == st.heap[s].id_receiver
             done == IF ~Registered(id_receiver)
                     THEN [entered EXCEPT !.raised = "KeyError"]
                     ELSE add_signal_listeners(entered, s, id_receiver, 1)
         IN  [done EXCEPT !.depth = st.depth]

\* a variant that does not pass on a signal that has been relayed once, which
\* C38_MultiHop rules out
add_signal_one_hop(st, s) ==
    IF st.raised # "none" \/ st.depth >= 2 THEN st
    ELSE LET entered == [st EXCEPT !.calls = @ + 1, !.depth = @ + 1]
             id_receiver == st.heap[s].id_receiver
             done == IF ~Registered(id_receiver) THEN entered
                     ELSE add_signal_listeners(entered, s, id_receiver, 1)
         IN  [done EXCEPT !.depth = st.depth]

(***************************************************************************)
(* add_signal(signal).  Radiosignal objects are mutable and shared: st.heap *)
(* holds the objects, s is the object passed, and the dictionaries of the  *)
(* step hold references (indices into the heap).  st.raised is the         *)
(* exception that ended the step, st.calls counts the calls of add_signal. *)
(***************************************************************************)
add_signal(st, s) ==
    IF st.raised # "none" THEN st
    ELSE IF st.depth >= RecursionLimit THEN [st EXCEPT !.raised = "RecursionError"]
    ELSE LET entered == [st EXCEPT !.calls = @ + 1, !.depth = @ + 1]
             id_receiver == st.heap[s].id_receiver
             done == IF ~Registered(id_receiver) THEN entered
                     ELSE add_signal_listeners(entered, s, id_receiver, 1)
         IN  [done EXCEPT !.depth = st.depth]

\* "for listener in recipient.listen_ether_tasks", from the i-th task on
add_signal_listeners(st, s, recipient, i) ==
    IF st.raised # "none" \/ i > Len(listen_ether_tasks[recipient]) THEN st
    ELSE
    LET listener == listen_ether_tasks[recipient][i]
        signal == st.heap[s]
        key == int(listener.frequency_recipiency)
    IN  IF id_antenna_receiver_is_None(listener)
        THEN [st EXCEPT !.raised = "AssertionError"]
        ELSE IF ~(/\ can_consumer_receive_signal_by_frequency(
                        signal.frequency, listener.frequency_recipiency)
                  /\ can_consumer_receive_signal_by_antenna(
                        signal.id_antenna_receiver, listener.id_antenna_receiver))
        THEN add_signal_listeners(Logged(st, s, recipient, listener, "mismatch"),
                                  s, recipient, i + 1)
        ELSE IF already_received(st.heap, DictGet(st.getting[recipient], key), s)
        THEN add_signal_listeners(Logged(st, s, recipient, listener, "duplicate"),
                                  s, recipient, i + 1)
        ELSE
        LET recorded(event) ==
                [Logged(st, s, recipient, listener, event)
                    EXCEPT !.getting[recipient] = DictAppend(@, key, s)]
            kept == IF save_relayed_signals_locally(listener)
                    THEN [recorded("relay") EXCEPT
                            !.receive[recipient] = DictAppend(@, key, s)]
                    ELSE recorded("relay")
        IN  IF listener.id_destination_relay # None
            THEN IF listener.frequency_transmission_relay = None
                 THEN [kept EXCEPT
                         !.heap[s].id_receiver = listener.id_destination_relay,
                         !.raised = "AssertionError"]
                 ELSE add_signal_listeners(
                         add_signal([kept EXCEPT !.heap[s] = relayed(@, listener)], s),
                         s, recipient, i + 1)
            ELSE add_signal_listeners(
                     [recorded("deposit") EXCEPT
                        !.receive[recipient] = DictAppend(@, key, s)],
                     s, recipient, i + 1)

RECURSIVE signals_to_send_latest_first(_)
\* a variant that passes the signals enqueued last first, which
\* C30_DeliveryOrder rules out
signals_to_send_latest_first(i) ==
    IF i > Len(consumers) THEN <<>>
    ELSE LET queued == DictValues(dict_id_receiver_signals_to_send[consumers[i]])
         IN  signals_to_send_latest_first(i + 1)
                \o [k \in 1..Len(queued) |-> queued[Len(queued) + 1 - k]]

RECURSIVE signals_to_send(_)
\* the Radiosignal objects of the consumers' dict_id_receiver_signals_to_send, in
\* the order imitation_step passes them to add_signal, from the i-th consumer on
signals_to_send(i) ==
    IF i > Len(consumers) THEN <<>>
    ELSE DictValues(dict_id_receiver_signals_to_send[consumers[i]])
            \o signals_to_send(i + 1)

RECURSIVE add_signals(_, _)
\* "self.add_signal(signal)" for the objects s, s+1, ... of the heap
add_signals(st, s) ==
    IF st.raised # "none" \/ s > Len(st.heap) THEN st
    ELSE add_signals(add_signal(st, s), s + 1)

\* a dictionary of references, with the objects in place of the references
Deref(heap, d) ==
    [i \in 1..Len(d) |->
        [key |-> d[i].key,
         value |-> [j \in 1..Len(d[i].value) |-> heap[d[i].value[j]]]]]

RECURSIVE Rebuild(_, _, _)
\* the dictionary d whose objects are heap[offset + 1], heap[offset + 2], ...
Rebuild(d, heap, offset) ==
    IF d = <<>> THEN <<>>
    ELSE <<[key |-> d[1].key,
            value |-> SubSeq(heap, offset + 1, offset + Len(d[1].value))]>>
         \o Rebuild(Tail(d), heap, offset + Len(d[1].value))

\* the number of objects that precede those of the i-th consumer in the heap
HeapOffset(i) == Len(signals_to_send(1)) - Len(signals_to_send(i))

Position(id) == CHOOSE i \in 1..Len(consumers) : consumers[i] = id

\* imitation_step of the medium, up to the return or the exception
medium_imitation_step ==
    add_signals([heap |-> signals_to_send(1),
                 receive |-> [id \in Ids |-> <<>>],
                 getting |-> [id \in Ids |-> <<>>],
                 calls |-> 0, depth |-> 0, raised |-> "none", log |-> <<>>], 1)

\* the last call: op names it, raised is the exception it ended with ("none" when
\* it returned), returned is the value it returned; for the medium's step, calls
\* counts add_signal's calls and log holds their matches
Outcome(op, raised, returned, calls, log) ==
    [op |-> op, raised |-> raised, returned |-> returned, calls |-> calls, log |-> log]

Call(op, raised, returned, calls) == Outcome(op, raised, returned, calls, <<>>)

\* RadioTransmissionMediumConsumer(properties): the state of a new consumer
RadioTransmissionMediumConsumer(frequency, id_consumer) ==
    /\ properties' = [properties EXCEPT ![id_consumer] = frequency]
    /\ dict_id_receiver_signals_to_send' =
          [dict_id_receiver_signals_to_send EXCEPT ![id_consumer] = <<>>]
    /\ dict_frequency_signal_to_receive' =
          [dict_frequency_signal_to_receive EXCEPT ![id_consumer] = <<>>]
    /\ listen_ether_tasks' = [listen_ether_tasks EXCEPT ![id_consumer] = <<>>]
    /\ dict_getting_information' =
          [dict_getting_information EXCEPT ![id_consumer] = <<>>]

\* a variant that puts a new consumer in the place of a registered one, which
\* C14_RegisterIdempotent rules out
register_consumer_anew(frequency, id_consumer) ==
    /\ consumers' = IF Registered(id_consumer) THEN consumers
                    ELSE Append(consumers, id_consumer)
    /\ RadioTransmissionMediumConsumer(frequency, id_consumer)
    /\ outcome' = Call("register_consumer", "none", "consumer", 0)
    /\ UNCHANGED localVars

\* register_consumer(RadioTransmissionMediumConsumerProperties(frequency, id_consumer))
register_consumer(frequency, id_consumer) ==
    /\ IF ~Registered(id_consumer)
       THEN /\ consumers' = Append(consumers, id_consumer)
            /\ RadioTransmissionMediumConsumer(frequency, id_consumer)
       ELSE UNCHANGED mediumVars
    /\ outcome' = Call("register_consumer", "none", "consumer", 0)
    /\ UNCHANGED localVars

Bool(b) == IF b THEN "True" ELSE "False"

\* a call of consumer c's send_signal from outside the local systems
SendSignal(c, id_receiver, memory, frequency, id_antenna_receiver) ==
    LET r == send_signal(dict_id_receiver_signals_to_send[c], c, id_receiver,
                         memory, frequency, id_antenna_receiver)
    IN  /\ Registered(c)
        /\ dict_id_receiver_signals_to_send' =
              [dict_id_receiver_signals_to_send EXCEPT ![c] = r.dict]
        /\ outcome' = Call("send_signal", "none", Bool(r.returned), 0)
        /\ UNCHANGED <<consumers, properties, dict_frequency_signal_to_receive,
                       listen_ether_tasks, dict_getting_information>>
        /\ UNCHANGED localVars

\* a call of consumer c's listen_ether from outside the local systems
ListenEther(c, id_antenna_receiver, frequency_recipiency) ==
    LET r == listen_ether(listen_ether_tasks[c], c, id_antenna_receiver,
                          frequency_recipiency)
    IN  /\ Registered(c)
        /\ listen_ether_tasks' = [listen_ether_tasks EXCEPT ![c] = r.tasks]
        /\ outcome' = Call("listen_ether", "none", Bool(r.returned), 0)
        /\ UNCHANGED <<consumers, properties, dict_id_receiver_signals_to_send,
                       dict_frequency_signal_to_receive, dict_getting_information>>
        /\ UNCHANGED localVars

\* a call of consumer c's i_am_repeater from outside the local systems
IAmRepeater(c, id_destination_relay, id_antenna_receiver, id_antenna_destination_relay, frequency_recipiency, frequency_transmission_relay, save_relayed_signals_locally_relay) ==
    LET r == i_am_repeater(listen_ether_tasks[c], c, id_destination_relay,
                           id_antenna_receiver, id_antenna_destination_relay,
                           frequency_recipiency, frequency_transmission_relay,
                           save_relayed_signals_locally_relay)
    IN  /\ Registered(c)
        /\ listen_ether_tasks' = [listen_ether_tasks EXCEPT ![c] = r.tasks]
        /\ outcome' = Call("i_am_repeater", "none", Bool(r.returned), 0)
        /\ UNCHANGED <<consumers, properties, dict_id_receiver_signals_to_send,
                       dict_frequency_signal_to_receive, dict_getting_information>>
        /\ UNCHANGED localVars

\* a call of consumer c's receive_signal from outside the local systems: the
\* list returned is kept in outcome.log
ReceiveSignal(c, frequency) ==
    /\ Registered(c)
    /\ outcome' = Outcome("receive_signal", "none", "list", 0,
                          receive_signal(c, frequency))
    /\ UNCHANGED mediumVars
    /\ UNCHANGED localVars

\* a variant that keeps the signals to send, which C35_NeverDelivered rules out
clear_tasks_keeps_signals(c) ==
    [dict_id_receiver_signals_to_send |-> dict_id_receiver_signals_to_send[c],
     listen_ether_tasks |-> <<>>]

\* a variant that keeps the listen tasks, which C18_SingleTick rules out
clear_tasks_keeps_listen_tasks(c) ==
    [dict_id_receiver_signals_to_send |-> <<>>,
     listen_ether_tasks |-> listen_ether_tasks[c]]

\* consumer.clear_tasks() on the consumer c: the two fields after the call
clear_tasks(c) ==
    [dict_id_receiver_signals_to_send |-> <<>>, listen_ether_tasks |-> <<>>]

\* RadioTransmissionMediumSystem.imitation_step(duration)
MediumStep ==
    LET st == medium_imitation_step
    IN  /\ dict_frequency_signal_to_receive' =
              [id \in Ids |-> Deref(st.heap, st.receive[id])]
        /\ dict_getting_information' =
              [id \in Ids |-> Deref(st.heap, st.getting[id])]
        /\ IF st.raised = "none"
           THEN \* clear_tasks() of every consumer
                /\ dict_id_receiver_signals_to_send' =
                      [id \in Ids |->
                          IF Registered(id)
                          THEN clear_tasks(id).dict_id_receiver_signals_to_send
                          ELSE dict_id_receiver_signals_to_send[id]]
                /\ listen_ether_tasks' =
                      [id \in Ids |->
                          IF Registered(id) THEN clear_tasks(id).listen_ether_tasks
                          ELSE listen_ether_tasks[id]]
                /\ outcome' = Outcome("medium.imitation_step", "none", "True",
                                    st.calls, st.log)
           ELSE \* the exception leaves the step: the objects stay as add_signal
                \* left them, in the dictionaries that still hold them
                /\ dict_id_receiver_signals_to_send' =
                      [id \in Ids |->
                          IF Registered(id)
                          THEN Rebuild(dict_id_receiver_signals_to_send[id], st.heap,
                                       HeapOffset(Position(id)))
                          ELSE dict_id_receiver_signals_to_send[id]]
                /\ UNCHANGED listen_ether_tasks
                /\ outcome' = Outcome("medium.imitation_step", st.raised, "None",
                                    st.calls, st.log)
        /\ UNCHANGED <<consumers, properties>>
        /\ UNCHANGED localVars

(***************************************************************************)
(* TransmitReceiveDevice                                                   *)
(***************************************************************************)

\* the TransmitReceiveDeviceProperties every device is created with (test.py)
antenna_properties ==
    [channel_capacity_transmit |-> 100, channel_capacity_receive |-> 100,
     frequency_range_min |-> MHz(50), frequency_range_max |-> MHz(200)]

\* the number of add_device calls for each spacecraft (test.py)
NumberOfAntennas(n) == IF n = 2 THEN 3 ELSE 2

AntennaIds(n) == 0..(NumberOfAntennas(n) - 1)

\* TransmitReceiveDevice.__init__: the middle of the range, no mode
TransmitReceiveDevice ==
    [frequency |-> (antenna_properties.frequency_range_max
                        + antenna_properties.frequency_range_min) \div 2,
     communication_mode |-> "FREE"]

\* a variant without the test of the upper end of the range, which
\* C13_FrequencyInRange rules out
set_frequency_raises_below_only(frequency) ==
    frequency < antenna_properties.frequency_range_min

\* set_frequency raises when the frequency is outside the device's range
set_frequency_raises(frequency) ==
    \/ frequency < antenna_properties.frequency_range_min
    \/ frequency > antenna_properties.frequency_range_max

\* device.set_frequency(frequency) when it returns
set_frequency(device, frequency) == [device EXCEPT !.frequency = frequency]

(***************************************************************************)
(* RadiotransmissionSystem: the assignments                                *)
(***************************************************************************)

\* "x in list" for a list of devices: TransmitReceiveDevice defines no __eq__,
\* so the devices are compared by identity (here: by id)
DeviceIn(id_antenna, list) == \E i \in 1..Len(list) : list[i] = id_antenna

\* a variant that lets a receiving device through, which C8_ModeExclusivity
\* rules out
transmitter_mode_conflict_relaxed(antenna) ==
    /\ antenna.communication_mode # "FREE"
    /\ antenna.communication_mode # "TRANSMISSION"
    /\ antenna.communication_mode # "RECEPTION"

transmitter_mode_conflict(antenna) ==
    /\ antenna.communication_mode # "FREE"
    /\ antenna.communication_mode # "TRANSMISSION"

transmitter_frequency_conflict(n, id_antenna, frequency) ==
    /\ DeviceIn(id_antenna, list_transmission_channel[n])
    /\ antennas[n][id_antenna].frequency # frequency
    /\ frequency # None

assign_device_as_transmitter(n, memory_block, id_antenna, id_receiver, frequency, id_antenna_receiver) ==
    LET antenna == antennas[n][id_antenna]
        tuned == IF Truthy(frequency) THEN set_frequency(antenna, frequency)
                 ELSE antenna
        signal == Radiosignal(-1, id_receiver, memory_block, tuned.frequency,
                              id_antenna_receiver)
    IN
    /\ IF transmitter_mode_conflict(antenna)
       THEN /\ outcome' = Call("assign_device_as_transmitter", "mode", "None", 0)
            /\ UNCHANGED <<antennas, dict_signals_to_send, list_transmission_channel>>
       ELSE IF transmitter_frequency_conflict(n, id_antenna, frequency)
       THEN /\ outcome' = Call("assign_device_as_transmitter", "frequency", "None", 0)
            /\ UNCHANGED <<antennas, dict_signals_to_send, list_transmission_channel>>
       ELSE IF Truthy(frequency) /\ set_frequency_raises(frequency)
       THEN \* the mode is set before set_frequency raises
            /\ antennas' = [antennas EXCEPT
                              ![n][id_antenna].communication_mode = "TRANSMISSION"]
            /\ outcome' = Call("assign_device_as_transmitter", "range", "None", 0)
            /\ UNCHANGED <<dict_signals_to_send, list_transmission_channel>>
       ELSE /\ antennas' = [antennas EXCEPT ![n][id_antenna] =
                              [tuned EXCEPT !.communication_mode = "TRANSMISSION"]]
            /\ dict_signals_to_send' = [dict_signals_to_send EXCEPT ![n] =
                              DictAppend(@, id_antenna, signal)]
            /\ list_transmission_channel' = [list_transmission_channel EXCEPT ![n] =
                              IF DeviceIn(id_antenna, @) THEN @
                              ELSE Append(@, id_antenna)]
            /\ outcome' = Call("assign_device_as_transmitter", "none", "False", 0)
    /\ UNCHANGED <<dict_reception_channel, dict_reception_channel_from_prev_step,
                   list_relay_channel, dict_id_device_memory_blocks_to_receive,
                   duration_>>
    /\ UNCHANGED mediumVars

receiver_mode_conflict(antenna) ==
    /\ antenna.communication_mode # "FREE"
    /\ antenna.communication_mode # "RECEPTION"

\* dict_reception_channel maps the id of a device to the device itself: the
\* model keeps the ids, in insertion order
receiver_frequency_conflict(n, id_antenna, frequency) ==
    /\ DeviceIn(id_antenna, dict_reception_channel[n])
    /\ antennas[n][id_antenna].frequency # frequency

\* a variant of the assignment that calls listen_ether at once, which
\* C28_StagedOnly rules out
tasks_listened_at_assignment(n, id_antenna, frequency) ==
    listen_ether(listen_ether_tasks[n], n, id_antenna, frequency).tasks

\* the listen tasks of consumer n after assign_device_as_receiver: the method
\* works on the devices and on dict_reception_channel and calls no method of
\* the consumer
tasks_after_assignment(n, id_antenna, frequency) ==
    listen_ether_tasks[n]

\* RadiotransmissionSystem.assign_device_as_receiver(id_antenna, frequency)
assign_device_as_receiver(n, id_antenna, frequency) ==
    LET antenna == antennas[n][id_antenna]
        tuned == IF Truthy(frequency) THEN set_frequency(antenna, frequency)
                 ELSE antenna
    IN
    /\ IF receiver_mode_conflict(antenna)
       THEN /\ outcome' = Call("assign_device_as_receiver", "mode", "None", 0)
            /\ UNCHANGED <<antennas, dict_reception_channel>>
       ELSE IF receiver_frequency_conflict(n, id_antenna, frequency)
       THEN /\ outcome' = Call("assign_device_as_receiver", "frequency", "None", 0)
            /\ UNCHANGED <<antennas, dict_reception_channel>>
       ELSE IF Truthy(frequency) /\ set_frequency_raises(frequency)
       THEN /\ antennas' = [antennas EXCEPT
                              ![n][id_antenna].communication_mode = "RECEPTION"]
            /\ outcome' = Call("assign_device_as_receiver", "range", "None", 0)
            /\ UNCHANGED dict_reception_channel
       ELSE /\ antennas' = [antennas EXCEPT ![n][id_antenna] =
                              [tuned EXCEPT !.communication_mode = "RECEPTION"]]
            /\ dict_reception_channel' = [dict_reception_channel EXCEPT ![n] =
                              IF DeviceIn(id_antenna, @) THEN @
                              ELSE Append(@, id_antenna)]
            /\ outcome' = Call("assign_device_as_receiver", "none", "True", 0)
    /\ UNCHANGED <<list_transmission_channel, dict_reception_channel_from_prev_step,
                   list_relay_channel, dict_signals_to_send,
                   dict_id_device_memory_blocks_to_receive, duration_>>
    /\ listen_ether_tasks' = [listen_ether_tasks EXCEPT ![n] =
                                 tasks_after_assignment(n, id_antenna, frequency)]
    /\ UNCHANGED <<consumers, properties, dict_id_receiver_signals_to_send,
                   dict_frequency_signal_to_receive, dict_getting_information>>

RelayChannel(antenna_in, antenna_out, id_destination_relay, id_antenna_destination_relay, save_relayed_signals_locally_relay) ==
    [antenna_in |-> antenna_in, antenna_out |-> antenna_out,
     id_destination_relay |-> id_destination_relay,
     id_antenna_destination_relay |-> id_antenna_destination_relay,
     save_relayed_signals_locally_relay |-> save_relayed_signals_locally_relay]

\* the first test of assign_device_as_repeater
repeater_in_mode_conflict(antenna_in) ==
    /\ antenna_in.communication_mode # "FREE"
    /\ antenna_in.communication_mode # "RELAYING_IN"

\* the second test: the code reads antenna_in here too
repeater_out_mode_conflict(antenna_in, antenna_out) ==
    /\ antenna_in.communication_mode # "FREE"
    /\ antenna_in.communication_mode # "RELAYING_OUT"

\* the third test: "antenna_in in [antenna_in of the channels] and antenna_in.frequency"
repeater_in_frequency_conflict(n, id_antenna_in) ==
    /\ \E i \in 1..Len(list_relay_channel[n]) :
            list_relay_channel[n][i].antenna_in = id_antenna_in
    /\ Truthy(antennas[n][id_antenna_in].frequency)

\* the fourth test
repeater_out_frequency_conflict(n, id_antenna_out) ==
    /\ \E i \in 1..Len(list_relay_channel[n]) :
            list_relay_channel[n][i].antenna_out = id_antenna_out
    /\ Truthy(antennas[n][id_antenna_out].frequency)

assign_device_as_repeater(n, id_antenna_in, id_antenna_out, id_destination_relay, id_antenna_destination_relay, frequency_in, frequency_out, save_relayed_signals_locally_relay) ==
    LET antenna_in == antennas[n][id_antenna_in]
        antenna_out == antennas[n][id_antenna_out]
        \* antenna_in.communication_mode = RELAYING_IN, then
        \* antenna_out.communication_mode = RELAYING_OUT (the same device when
        \* the two ids are equal)
        moded == [[antennas[n] EXCEPT ![id_antenna_in].communication_mode = "RELAYING_IN"]
                     EXCEPT ![id_antenna_out].communication_mode = "RELAYING_OUT"]
        in_raises == Truthy(frequency_in) /\ set_frequency_raises(frequency_in)
        tuned_in == IF Truthy(frequency_in)
                    THEN [moded EXCEPT ![id_antenna_in] = set_frequency(@, frequency_in)]
                    ELSE moded
        out_raises == Truthy(frequency_out) /\ set_frequency_raises(frequency_out)
        tuned_out == IF Truthy(frequency_out)
                     THEN [tuned_in EXCEPT ![id_antenna_out] = set_frequency(@, frequency_out)]
                     ELSE tuned_in
        relay_channel == RelayChannel(id_antenna_in, id_antenna_out, id_destination_relay,
                                      id_antenna_destination_relay,
                                      save_relayed_signals_locally_relay)
    IN
    /\ IF repeater_in_mode_conflict(antenna_in)
          \/ repeater_out_mode_conflict(antenna_in, antenna_out)
       THEN /\ outcome' = Call("assign_device_as_repeater", "mode", "None", 0)
            /\ UNCHANGED <<antennas, list_relay_channel>>
       ELSE IF repeater_in_frequency_conflict(n, id_antenna_in)
               \/ repeater_out_frequency_conflict(n, id_antenna_out)
       THEN /\ outcome' = Call("assign_device_as_repeater", "frequency", "None", 0)
            /\ UNCHANGED <<antennas, list_relay_channel>>
       ELSE IF in_raises
       THEN /\ antennas' = [antennas EXCEPT ![n] = moded]
            /\ outcome' = Call("assign_device_as_repeater", "range", "None", 0)
            /\ UNCHANGED list_relay_channel
       ELSE IF out_raises
       THEN /\ antennas' = [antennas EXCEPT ![n] = tuned_in]
            /\ outcome' = Call("assign_device_as_repeater", "range", "None", 0)
            /\ UNCHANGED list_relay_channel
       ELSE /\ antennas' = [antennas EXCEPT ![n] = tuned_out]
            /\ list_relay_channel' = [list_relay_channel EXCEPT ![n] =
                              IF InList(relay_channel, @) THEN @
                              ELSE Append(@, relay_channel)]
            /\ outcome' = Call("assign_device_as_repeater", "none", "True", 0)
    /\ UNCHANGED <<list_transmission_channel, dict_reception_channel,
                   dict_reception_channel_from_prev_step, dict_signals_to_send,
                   dict_id_device_memory_blocks_to_receive, duration_>>
    /\ UNCHANGED mediumVars

(***************************************************************************)
(* RadiotransmissionSystem: imitation_step and finalize_step               *)
(***************************************************************************)

\* a variant with the strict comparison, which C7_TransmitCapacity rules out
enough_transmit_capacity_strict(signal, duration) ==
    antenna_properties.channel_capacity_transmit * duration > size(signal.memory)

\* "antenna.properties.channel_capacity_transmit >= signal.memory.size / duration"
\* (a float division; the duration of a step is positive)
enough_transmit_capacity(signal, duration) ==
    antenna_properties.channel_capacity_transmit * duration >= size(signal.memory)

\* "antenna.properties.channel_capacity_receive >= signal.memory.size / self.__duration"
enough_receive_capacity(signal, duration) ==
    antenna_properties.channel_capacity_receive * duration >= size(signal.memory)

RECURSIVE DictItems(_)
\* the pairs (key, element) in the order "for k in d: for x in d[k]" visits them
DictItems(d) ==
    IF d = <<>> THEN <<>>
    ELSE [j \in 1..Len(d[1].value) |-> [key |-> d[1].key, value |-> d[1].value[j]]]
            \o DictItems(Tail(d))

RECURSIVE send_signals(_, _, _, _)
\* the first loop of imitation_step, from the i-th staged signal on; st holds the
\* consumer's dict_id_receiver_signals_to_send, the devices and the exception
send_signals(n, st, staged, duration) ==
    IF staged = <<>> THEN st
    ELSE LET id_antenna == staged[1].key
             signal == staged[1].value
         IN  IF enough_transmit_capacity(signal, duration)
             THEN send_signals(n,
                     [st EXCEPT
                        !.antennas[id_antenna].communication_mode = "TRANSMISSION",
                        !.dict = send_signal(@, n, signal.id_receiver, signal.memory,
                                             signal.frequency,
                                             signal.id_antenna_receiver).dict],
                     Tail(staged), duration)
             ELSE [st EXCEPT !.raised = "capacity"]

RECURSIVE listen_all(_, _, _, _)
\* the second loop: listen_ether for every device of dict_reception_channel
listen_all(n, st, ids, i) ==
    IF i > Len(ids) THEN st
    ELSE listen_all(n,
            [st EXCEPT
               !.antennas[ids[i]].communication_mode = "RECEPTION",
               !.tasks = listen_ether(@, n, ids[i], st.antennas[ids[i]].frequency).tasks],
            ids, i + 1)

RECURSIVE relay_all(_, _, _, _)
\* the third loop: i_am_repeater for every channel of list_relay_channel
relay_all(n, st, channels, i) ==
    IF i > Len(channels) THEN st
    ELSE LET channel == channels[i]
             moded == [[st.antennas
                          EXCEPT ![channel.antenna_in].communication_mode = "RELAYING_IN"]
                          EXCEPT ![channel.antenna_out].communication_mode = "RELAYING_OUT"]
         IN  relay_all(n,
                [st EXCEPT
                   !.antennas = moded,
                   !.tasks = i_am_repeater(@, n, channel.id_destination_relay,
                                channel.antenna_in,
                                channel.id_antenna_destination_relay,
                                moded[channel.antenna_in].frequency,
                                moded[channel.antenna_out].frequency,
                                channel.save_relayed_signals_locally_relay).tasks],
                channels, i + 1)

\* a variant that copies every device of the spacecraft, which
\* C24_OnlyReceivers rules out
reception_snapshot_of_every_device(ids, devices) ==
    LET RECURSIVE all(_)
        all(id_antenna) ==
            IF id_antenna \notin DOMAIN devices THEN <<>>
            ELSE <<[id_antenna |-> id_antenna,
                    frequency |-> devices[id_antenna].frequency]>> \o all(id_antenna + 1)
    IN  all(0)

\* deepcopy(self.dict_reception_channel): copies of the devices, of which
\* finalize_step reads the frequency (the properties never change)
reception_snapshot(ids, devices) ==
    [i \in 1..Len(ids) |-> [id_antenna |-> ids[i], frequency |-> devices[ids[i]].frequency]]

\* a variant of the local step that leaves the devices in their modes, which
\* C34_LocalStepPostState rules out
communication_mode_kept(mode) == mode

\* "self.__antennas[id_antenna].communication_mode = CommunicationModeType.FREE"
\* at the end of imitation_step, for every device
communication_mode_after_step(mode) == "FREE"

\* a variant of the local step that leaves the received memory blocks in place,
\* which C27_ResultsUntilLocalStep rules out
memory_blocks_to_receive_kept(n) == dict_id_device_memory_blocks_to_receive[n]

\* self.dict_id_device_memory_blocks_to_receive.clear() of imitation_step: every
\* device reads [] afterwards
memory_blocks_to_receive_cleared(n) == [a \in AntennaIds(n) |-> <<>>]

\* RadiotransmissionSystem.imitation_step(duration) of spacecraft n
imitation_step(n, duration) ==
    LET sent == send_signals(n,
                    [dict |-> dict_id_receiver_signals_to_send[n],
                     tasks |-> listen_ether_tasks[n],
                     antennas |-> antennas[n], raised |-> "none"],
                    DictItems(dict_signals_to_send[n]), duration)
        told == relay_all(n, listen_all(n, sent, dict_reception_channel[n], 1),
                          list_relay_channel[n], 1)
    IN
    /\ Registered(n)
    /\ duration_' = [duration_ EXCEPT ![n] = duration]
    /\ IF sent.raised # "none"
       THEN /\ dict_id_receiver_signals_to_send' =
                  [dict_id_receiver_signals_to_send EXCEPT ![n] = sent.dict]
            /\ antennas' = [antennas EXCEPT ![n] = sent.antennas]
            /\ outcome' = Call("imitation_step", sent.raised, "None", 0)
            /\ UNCHANGED <<listen_ether_tasks, list_transmission_channel,
                           dict_reception_channel, dict_reception_channel_from_prev_step,
                           list_relay_channel, dict_signals_to_send,
                           dict_id_device_memory_blocks_to_receive>>
       ELSE /\ dict_id_receiver_signals_to_send' =
                  [dict_id_receiver_signals_to_send EXCEPT ![n] = told.dict]
            /\ listen_ether_tasks' = [listen_ether_tasks EXCEPT ![n] = told.tasks]
            /\ dict_reception_channel_from_prev_step' =
                  [dict_reception_channel_from_prev_step EXCEPT ![n] =
                      reception_snapshot(dict_reception_channel[n], told.antennas)]
            /\ dict_id_device_memory_blocks_to_receive' =
                  [dict_id_device_memory_blocks_to_receive EXCEPT ![n] =
                      memory_blocks_to_receive_cleared(n)]
            /\ dict_signals_to_send' = [dict_signals_to_send EXCEPT ![n] = <<>>]
            /\ list_transmission_channel' = [list_transmission_channel EXCEPT ![n] = <<>>]
            /\ dict_reception_channel' = [dict_reception_channel EXCEPT ![n] = <<>>]
            /\ list_relay_channel' = [list_relay_channel EXCEPT ![n] = <<>>]
            /\ antennas' = [antennas EXCEPT ![n] =
                              [a \in AntennaIds(n) |->
                                  [told.antennas[a] EXCEPT
                                      !.communication_mode = communication_mode_after_step(@)]]]
            /\ outcome' = Call("imitation_step", "none", "None", 0)
    /\ UNCHANGED <<consumers, properties, dict_frequency_signal_to_receive,
                   dict_getting_information>>

RECURSIVE received_signals(_, _, _, _)
\* the inner loop of finalize_step for one device of the snapshot: the memory
\* blocks appended to blocks, from the j-th signal of the list on
received_signals(blocks, id_antenna, signals, duration) ==
    IF signals = <<>> THEN blocks
    ELSE received_signals(
            IF /\ signals[1].id_antenna_receiver = id_antenna
               /\ enough_receive_capacity(signals[1], duration)
            THEN Append(blocks, signals[1].memory) ELSE blocks,
            id_antenna, Tail(signals), duration)

\* a variant that reads the frequency of the device as it is now, as a shallow
\* copy of dict_reception_channel would, which C6_DelayedDelivery rules out
live_frequency(n, entry) == antennas[n][entry.id_antenna].frequency

\* "antenna.frequency" of finalize_step: the frequency of the copy that
\* imitation_step's deepcopy put in dict_reception_channel_from_prev_step
snapshot_frequency(n, entry) == entry.frequency

RECURSIVE finalize_all(_, _, _, _)
\* the outer loop of finalize_step, from the i-th device of the snapshot on
finalize_all(n, received, snapshot, i) ==
    IF i > Len(snapshot) THEN received
    ELSE LET id_antenna == snapshot[i].id_antenna
         IN  finalize_all(n,
                [received EXCEPT ![id_antenna] =
                    received_signals(@, id_antenna,
                                     receive_signal(n, snapshot_frequency(n, snapshot[i])),
                                     duration_[n])],
                snapshot, i + 1)

\* self.__duration is None until the first imitation_step: the division raises
\* for the first signal whose antenna id is the device's
finalize_step_raises(n) ==
    /\ duration_[n] = None
    /\ \E i \in 1..Len(dict_reception_channel_from_prev_step[n]) :
          LET entry == dict_reception_channel_from_prev_step[n][i]
              signals == receive_signal(n, snapshot_frequency(n, entry))
          IN  \E j \in 1..Len(signals) : signals[j].id_antenna_receiver = entry.id_antenna

\* RadiotransmissionSystem.finalize_step() of spacecraft n
finalize_step(n) ==
    /\ Registered(n)
    /\ IF finalize_step_raises(n)
       THEN /\ outcome' = Call("finalize_step", "TypeError", "None", 0)
            /\ UNCHANGED dict_id_device_memory_blocks_to_receive
       ELSE /\ dict_id_device_memory_blocks_to_receive' =
                  [dict_id_device_memory_blocks_to_receive EXCEPT ![n] =
                      finalize_all(n, @, dict_reception_channel_from_prev_step[n], 1)]
            /\ outcome' = Call("finalize_step", "none", "None", 0)
    /\ UNCHANGED <<antennas, list_transmission_channel, dict_reception_channel,
                   dict_reception_channel_from_prev_step, list_relay_channel,
                   dict_signals_to_send, duration_>>
    /\ UNCHANGED mediumVars

\* consumer.get_antennas_signals(id_antenna): a read
get_antennas_signals(n, id_antenna) ==
    dict_id_device_memory_blocks_to_receive[n][id_antenna]

(***************************************************************************)
(* The state after construction                                            *)
(***************************************************************************)

\* RadioTransmissionMediumSystem(), the consumers of registered registered in
\* this order, and for each spacecraft a RadiotransmissionSystem with its devices
Constructed(registered) ==
    /\ consumers = registered
    /\ properties = [id \in Ids |->
                        IF InList(id, registered) THEN ConsumerFrequency(id) ELSE None]
    /\ dict_id_receiver_signals_to_send = [id \in Ids |-> <<>>]
    /\ dict_frequency_signal_to_receive = [id \in Ids |-> <<>>]
    /\ listen_ether_tasks = [id \in Ids |-> <<>>]
    /\ dict_getting_information = [id \in Ids |-> <<>>]
    /\ antennas = [n \in Ids |-> [a \in AntennaIds(n) |-> TransmitReceiveDevice]]
    /\ list_transmission_channel = [n \in Ids |-> <<>>]
    /\ dict_reception_channel = [n \in Ids |-> <<>>]
    /\ dict_reception_channel_from_prev_step = [n \in Ids |-> <<>>]
    /\ list_relay_channel = [n \in Ids |-> <<>>]
    /\ dict_signals_to_send = [n \in Ids |-> <<>>]
    /\ dict_id_device_memory_blocks_to_receive =
          [n \in Ids |-> [a \in AntennaIds(n) |-> <<>>]]
    /\ duration_ = [n \in Ids |-> None]
    /\ outcome = Call("__init__", "none", "None", 0)
    /\ host_calls = 0
    /\ script = {}

\* the host makes one more call
HostCall(max) ==
    /\ host_calls < max
    /\ host_calls' = host_calls + 1
    /\ UNCHANGED script

(***************************************************************************)
(* The medium alone: consumers 1 and 2 use it directly, 3 is not registered *)
(***************************************************************************)

\* the number of calls the host makes to the medium and its consumers
MaxMediumCalls == 4

\* send_signal: the consumer, id_receiver, frequency, id_antenna_receiver
MediumSendArgs ==
    {<<1, 2, MHz(100), 0>>, <<1, 2, MHz(100) + 1, 0>>, <<1, 2, MHz(110), 0>>,
     <<1, 2, None, None>>, <<1, 3, MHz(100), 0>>, <<1, 1, MHz(100), 0>>,
     <<2, 1, MHz(100), 0>>}

\* listen_ether: the consumer, id_antenna_receiver, frequency_recipiency
MediumListenArgs ==
    {<<2, 0, MHz(100)>>, <<2, 0, MHz(110)>>, <<2, 1, None>>, <<1, 0, MHz(100)>>}

\* i_am_repeater: the consumer, id_destination_relay, id_antenna_receiver,
\* id_antenna_destination_relay, frequency_recipiency,
\* frequency_transmission_relay, save_relayed_signals_locally_relay
MediumRelayArgs ==
    {<<2, 1, 0, 0, MHz(100), MHz(100) + 1, FALSE>>,
     <<2, 1, 0, 0, MHz(100), MHz(100) + 1, TRUE>>,
     <<1, 2, 0, 0, MHz(100), MHz(100), FALSE>>,
     <<2, 3, 0, 0, MHz(100), MHz(100), FALSE>>,
     <<2, 1, 0, None, MHz(110), MHz(100), TRUE>>,
     <<2, 2, 0, 0, MHz(100), MHz(100), FALSE>>}

InitMedium == Constructed(<<1, 2>>)

RECURSIVE Sum(_, _)
Sum(f, S) ==
    IF S = {} THEN 0
    ELSE LET x == CHOOSE x \in S : TRUE IN f[x] + Sum(f, S \ {x})

\* the signals queued at the consumers and the tasks the consumers have registered
QueuedSignals == Len(signals_to_send(1))
ActiveTasks == Sum([id \in Ids |-> Len(listen_ether_tasks[id])], Ids)

NextMedium ==
    \/ \E a \in MediumSendArgs :
            /\ HostCall(MaxMediumCalls)
            /\ SendSignal(a[1], a[2], MemoryBlock(121, 3, 4), a[3], a[4])
    \/ \E a \in MediumListenArgs :
            /\ HostCall(MaxMediumCalls)
            /\ ListenEther(a[1], a[2], a[3])
    \/ \E a \in MediumRelayArgs :
            /\ HostCall(MaxMediumCalls)
            /\ IAmRepeater(a[1], a[2], a[3], a[4], a[5], a[6], a[7])
    \/ HostCall(MaxMediumCalls) /\ MediumStep

SpecMedium == InitMedium /\ [][NextMedium]_vars


(***************************************************************************)
(* One spacecraft: the host drives the RadiotransmissionSystem of 1, whose  *)
(* consumer is registered with consumer 2, which uses the medium directly   *)
(***************************************************************************)

\* the number of calls the host makes
MaxLocalCalls == 6

\* assign_device_as_transmitter: memory_block, id_antenna, id_receiver,
\* frequency, id_antenna_receiver
LocalTransmitArgs ==
    {<<MemoryBlock(121, 3, 4), 0, 2, MHz(100), 0>>,
     <<MemoryBlock(121, 3, 4), 0, 2, None, 0>>,
     <<MemoryBlock(121, 3, 4), 0, 2, MHz(150), 0>>,
     <<MemoryBlock(122, 0, 200), 0, 2, MHz(100), 0>>,
     <<MemoryBlock(131, 7, 8), 0, 1, MHz(100), 0>>}

\* assign_device_as_receiver: id_antenna, frequency
LocalReceiveArgs == {<<0, MHz(100)>>, <<0, None>>, <<0, MHz(150)>>}

\* assign_device_as_repeater: id_antenna_in, id_antenna_out, id_destination_relay,
\* id_antenna_destination_relay, frequency_in, frequency_out,
\* save_relayed_signals_locally_relay
LocalRepeaterArgs == {<<1, 0, 2, 0, MHz(100), MHz(150), FALSE>>}

\* the durations of a step
Durations == {1, 2}

\* send_signal of consumer 2: id_receiver, frequency, id_antenna_receiver
PeerSendArgs == {<<1, MHz(100), 0>>}

InitLocal == Constructed(<<1, 2>>)

NextLocal ==
    \/ \E a \in LocalTransmitArgs :
          /\ HostCall(MaxLocalCalls)
          /\ assign_device_as_transmitter(1, a[1], a[2], a[3], a[4], a[5])
    \/ \E a \in LocalReceiveArgs :
          /\ HostCall(MaxLocalCalls)
          /\ assign_device_as_receiver(1, a[1], a[2])
    \/ \E a \in LocalRepeaterArgs :
          /\ HostCall(MaxLocalCalls)
          /\ assign_device_as_repeater(1, a[1], a[2], a[3], a[4], a[5], a[6], a[7])
    \/ \E duration \in Durations :
          /\ HostCall(MaxLocalCalls)
          /\ imitation_step(1, duration)
    \/ \E a \in PeerSendArgs :
          /\ HostCall(MaxLocalCalls)
          /\ SendSignal(2, a[1], MemoryBlock(211, 0, 1), a[2], a[3])
    \/ HostCall(MaxLocalCalls) /\ MediumStep
    \/ HostCall(MaxLocalCalls) /\ finalize_step(1)

SpecLocal == InitLocal /\ [][NextLocal]_vars

(***************************************************************************)
(* The scenario of test.py: spacecraft 1 transmits, 2 relays to 3, 3        *)
(* receives.  The host makes the calls of each spacecraft before its step,  *)
(* the three steps before the medium's, and the finalize_steps after it;    *)
(* the signals 122 and 233 may be left out, and the order is free otherwise *)
(***************************************************************************)

\* the host makes the call label of the script, once, and before those of later
Scripted(label, later) ==
    /\ label \notin script
    /\ later \cap script = {}
    /\ script' = script \cup {label}
    /\ UNCHANGED host_calls

\* the assign_device_as_transmitter calls of test.py, all at spacecraft 1:
\* memory_block, id_antenna, id_receiver, frequency, id_antenna_receiver
ScenarioTransmitArgs ==
    {<<MemoryBlock(121, 3, 4), 0, 2, MHz(100), 1>>,
     <<MemoryBlock(122, 5, 6), 1, 2, MHz(150), 0>>,
     <<MemoryBlock(131, 7, 8), 1, 3, MHz(150), 1>>,
     <<MemoryBlock(233, 17, 18), 0, 3, MHz(100), 0>>}

\* the assign_device_as_receiver calls of test.py, at spacecraft 3
ScenarioReceiveArgs == {<<0, MHz(100)>>, <<1, MHz(150)>>}

\* the calls a spacecraft's step waits for
ScenarioAssignments(n) ==
    IF n = 1 THEN {<<"transmit", 121>>, <<"transmit", 131>>}
    ELSE IF n = 2 THEN {<<"repeater", 2>>}
    ELSE {<<"receive", 0>>, <<"receive", 1>>}

InitScenario == Constructed(<<1, 2, 3>>)

NextScenario ==
    \/ \E a \in ScenarioTransmitArgs :
          /\ Scripted(<<"transmit", a[1].memory_id>>, {<<"step", 1>>})
          /\ assign_device_as_transmitter(1, a[1], a[2], a[3], a[4], a[5])
    \/ \E save_relayed_signals_locally_relay \in BOOLEAN :
          /\ Scripted(<<"repeater", 2>>, {<<"step", 2>>})
          /\ assign_device_as_repeater(2, 1, 2, 3, 1, MHz(100), MHz(150),
                                       save_relayed_signals_locally_relay)
    \/ \E a \in ScenarioReceiveArgs :
          /\ Scripted(<<"receive", a[1]>>, {<<"step", 3>>})
          /\ assign_device_as_receiver(3, a[1], a[2])
    \/ \E n \in Spacecraft, duration \in Durations :
          /\ Scripted(<<"step", n>>, {})
          /\ ScenarioAssignments(n) \subseteq script
          /\ imitation_step(n, duration)
    \/ /\ Scripted(<<"medium", 0>>, {})
       /\ {<<"step", n>> : n \in Spacecraft} \subseteq script
       /\ MediumStep
    \/ \E n \in Spacecraft :
          /\ Scripted(<<"finalize", n>>, {})
          /\ <<"medium", 0>> \in script
          /\ finalize_step(n)

SpecScenario == InitScenario /\ [][NextScenario]_vars

(***************************************************************************)
(* Properties of the medium's step                                         *)
(***************************************************************************)

\* the step just taken is the medium's imitation_step
MediumStepped == outcome'.op = "medium.imitation_step"

\* the state follows a medium step that returned
AfterMediumStep == outcome.op = "medium.imitation_step" /\ outcome.raised = "none"

\* the passes of the log where the signal fitted the task and was not a duplicate
Recorded(log, recipient, key) ==
    {i \in 1..Len(log) :
        /\ log[i].recipient = recipient
        /\ int(log[i].listener.frequency_recipiency) = key
        /\ log[i].event \in {"relay", "deposit"}}

\* the passes of the log that put the signal in the recipient's inbox
Deposited(log, recipient) ==
    {i \in 1..Len(log) :
        /\ log[i].recipient = recipient
        /\ \/ log[i].event = "deposit"
           \/ log[i].event = "relay"
              /\ log[i].listener.save_relayed_signals_locally_relay}

Relays(log) == {i \in 1..Len(log) : log[i].event = "relay"}

Keys(log) == {int(log[i].listener.frequency_recipiency) : i \in 1..Len(log)}

\* C2: the medium's step terminates whatever the tasks and the queued signals,
\* two endpoints relaying to each other included: add_signal's recursion never
\* exhausts the stack, and add_signal is called at most once per queued signal
\* plus once per queued signal and registered task
C2_RelayLoopTerminates ==
    [][MediumStepped =>
        /\ outcome'.raised # "RecursionError"
        /\ outcome'.calls <= QueuedSignals * (1 + ActiveTasks)]_vars

\* two endpoints relayed one signal to each other and the cycle was cut when the
\* signal came back to the first of them
C2_Witness ==
    /\ AfterMediumStep
    /\ \E i, j, k \in 1..Len(outcome.log) :
        /\ i < j /\ j < k
        /\ outcome.log[i].object = outcome.log[j].object
        /\ outcome.log[j].object = outcome.log[k].object
        /\ outcome.log[i].event = "relay"
        /\ outcome.log[j].event = "relay"
        /\ outcome.log[i].recipient # outcome.log[j].recipient
        /\ outcome.log[k].recipient = outcome.log[i].recipient
        /\ outcome.log[k].event = "duplicate"

\* C3: in a medium step, a signal that fits a task of endpoint E is skipped (not
\* deposited, not relayed) exactly when E's cache holds an equal signal under the
\* key int(listen frequency); otherwise it is in the cache when it is deposited
\* or relayed; and the cache starts the step empty, so that it holds what this
\* step recorded and nothing else
C3_Dedup ==
    [][MediumStepped /\ outcome'.raised = "none" =>
        LET log == outcome'.log
        IN  /\ \A i \in 1..Len(log) :
                LET key == int(log[i].listener.frequency_recipiency)
                    earlier == {j \in Recorded(log, log[i].recipient, key) : j < i}
                IN  /\ log[i].event # "mismatch" =>
                        (log[i].event = "duplicate"
                            <=> InList(log[i].signal, log[i].recorded))
                    /\ Len(log[i].recorded) = Cardinality(earlier)
                    /\ log[i].event \in {"relay", "deposit"} =>
                        LET list == DictGet(dict_getting_information'[log[i].recipient],
                                            key)
                        IN  /\ Len(list) > Cardinality(earlier)
                            /\ list[Cardinality(earlier) + 1].memory
                                  = log[i].signal.memory
            /\ \A id \in Ids :
                /\ \A key \in Keys(log) :
                      Len(DictGet(dict_getting_information'[id], key))
                          = Cardinality(Recorded(log, id, key))
                /\ \A j \in 1..Len(dict_getting_information'[id]) :
                      dict_getting_information'[id][j].key \in Keys(log)
                /\ Len(DictValues(dict_frequency_signal_to_receive'[id]))
                      = Cardinality(Deposited(log, id))
            /\ outcome'.calls = QueuedSignals + Cardinality(Relays(log))]_vars

\* a signal was skipped because another signal, equal to it, had been recorded
C3_Witness ==
    /\ AfterMediumStep
    /\ \E i, j \in 1..Len(outcome.log) :
        /\ j < i
        /\ outcome.log[i].event = "duplicate"
        /\ outcome.log[j].event = "deposit"
        /\ outcome.log[j].object # outcome.log[i].object
        /\ outcome.log[j].recipient = outcome.log[i].recipient

\* C4: a signal fits a task by frequency exactly when the two frequencies differ
\* by less than the accuracy, 10 MHz; a difference of exactly 10 MHz does not
\* fit; and it makes no difference which of the two is the larger
C4_FrequencyTolerance ==
    AfterMediumStep =>
        \A i \in 1..Len(outcome.log) :
            LET e == outcome.log[i]
                f == e.signal.frequency
                g == e.listener.frequency_recipiency
            IN  /\ e.signal.id_antenna_receiver = e.listener.id_antenna_receiver =>
                    (e.event # "mismatch" <=> (f - g < MHz(10) /\ g - f < MHz(10)))
                /\ e.event # "mismatch" => (f - g < MHz(10) /\ g - f < MHz(10))
                /\ can_consumer_receive_signal_by_frequency(f, g)
                      <=> can_consumer_receive_signal_by_frequency(g, f)

\* a signal met a task on its antenna exactly 10 MHz away and did not fit
C4_Witness ==
    /\ AfterMediumStep
    /\ \E i \in 1..Len(outcome.log) :
        LET e == outcome.log[i]
        IN  /\ e.signal.id_antenna_receiver = e.listener.id_antenna_receiver
            /\ Abs(e.signal.frequency - e.listener.frequency_recipiency) = MHz(10)
            /\ e.event = "mismatch"

Count(x, list) == Cardinality({i \in 1..Len(list) : list[i] = x})

\* the signals staged at spacecraft n, in the order imitation_step visits them
Staged(n) ==
    LET items == DictItems(dict_signals_to_send[n])
    IN  [i \in 1..Len(items) |-> items[i].value]

\* the signal consumer n queues for a staged signal
Enqueued(n, signal) ==
    Radiosignal(n, signal.id_receiver, signal.memory, signal.frequency,
                signal.id_antenna_receiver)

\* the signal needs more than the transmit capacity of its device for the duration
Oversize(signal, duration) ==
    size(signal.memory) > antenna_properties.channel_capacity_transmit * duration

\* what finalize_step is to append for antenna id_antenna: the memory blocks of
\* the signals in the inbox under the frequency the snapshot has for the antenna,
\* that name the antenna and fit its receive capacity
Delivered(n, id_antenna) ==
    LET snapshot == dict_reception_channel_from_prev_step[n]
        entries == {i \in 1..Len(snapshot) : snapshot[i].id_antenna = id_antenna}
        Fits(signal) ==
            /\ signal.id_antenna_receiver = id_antenna
            /\ size(signal.memory)
                  <= antenna_properties.channel_capacity_receive * duration_[n]
    IN  IF entries = {} THEN <<>>
        ELSE LET entry == snapshot[CHOOSE i \in entries : TRUE]
                 signals == SelectSeq(
                     DictGet(dict_frequency_signal_to_receive[n], int(entry.frequency)),
                     Fits)
             IN  [j \in 1..Len(signals) |-> signals[j].memory]

\* C6: the local step of a tick records which devices receive and on which
\* frequencies, and empties what was received; finalize_step delivers from the
\* inbox by that record, whatever the devices have been assigned since; the
\* record changes in the local step only, what was received changes in the local
\* step and in finalize_step only, and the inbox changes in the medium's step
\* only: nothing sent in a tick is received before the medium's step and
\* finalize_step of that tick
C6_DelayedDelivery ==
    [][/\ \A n \in Ids :
            /\ (\E duration \in Durations : imitation_step(n, duration))
               /\ outcome'.raised = "none"
               => /\ dict_reception_channel_from_prev_step'[n] =
                        [i \in 1..Len(dict_reception_channel[n]) |->
                            [id_antenna |-> dict_reception_channel[n][i],
                             frequency |->
                                antennas[n][dict_reception_channel[n][i]].frequency]]
                  /\ \A a \in AntennaIds(n) :
                        dict_id_device_memory_blocks_to_receive'[n][a] = <<>>
            /\ finalize_step(n) /\ outcome'.raised = "none"
               => \A a \in AntennaIds(n) :
                     dict_id_device_memory_blocks_to_receive'[n][a] =
                        dict_id_device_memory_blocks_to_receive[n][a]
                            \o Delivered(n, a)
       /\ dict_reception_channel_from_prev_step' # dict_reception_channel_from_prev_step
            => outcome'.op = "imitation_step"
       /\ dict_id_device_memory_blocks_to_receive'
                # dict_id_device_memory_blocks_to_receive
            => outcome'.op \in {"imitation_step", "finalize_step"}
       /\ dict_frequency_signal_to_receive' # dict_frequency_signal_to_receive
            => MediumStepped]_vars

\* finalize_step delivered on the frequency of the record to a device that had
\* been tuned to another frequency after the local step
C6_Witness ==
    /\ outcome.op = "finalize_step"
    /\ outcome.raised = "none"
    /\ \E n \in Ids :
        \E i \in 1..Len(dict_reception_channel_from_prev_step[n]) :
            LET entry == dict_reception_channel_from_prev_step[n][i]
                device == antennas[n][entry.id_antenna]
            IN  /\ int(device.frequency) # int(entry.frequency)
                /\ device.communication_mode = "RECEPTION"
                /\ get_antennas_signals(n, entry.id_antenna) # <<>>
                /\ DictGet(dict_frequency_signal_to_receive[n],
                           int(device.frequency)) = <<>>

\* C7 as stated: the local step raises when a staged signal needs more than the
\* transmit capacity, such a signal is not queued at the consumer, and every
\* staged signal within the capacity is queued
C7_AsStated ==
    [][\A duration \in Durations :
        imitation_step(1, duration) =>
            LET before == DictValues(dict_id_receiver_signals_to_send[1])
                after == DictValues(dict_id_receiver_signals_to_send'[1])
            IN  /\ (\E i \in 1..Len(Staged(1)) : Oversize(Staged(1)[i], duration))
                       => outcome'.raised = "capacity"
                /\ \A i \in 1..Len(Staged(1)) :
                      LET queued == Enqueued(1, Staged(1)[i])
                      IN  IF Oversize(Staged(1)[i], duration)
                          THEN Count(queued, after) = Count(queued, before)
                          ELSE Count(queued, after)
                                  = Count(queued, before) + Count(Staged(1)[i], Staged(1))
       ]_vars

\* C7, amended: the local step raises exactly when a staged signal needs more
\* than the transmit capacity, and such a signal is not queued at the consumer;
\* when the step returns, every staged signal (all are within the capacity, the
\* one that needs exactly the capacity included) that is not addressed to the
\* spacecraft itself is queued
C7_TransmitCapacity ==
    [][\A duration \in Durations :
        imitation_step(1, duration) =>
            LET before == DictValues(dict_id_receiver_signals_to_send[1])
                after == DictValues(dict_id_receiver_signals_to_send'[1])
            IN  /\ (\E i \in 1..Len(Staged(1)) : Oversize(Staged(1)[i], duration))
                       <=> outcome'.raised = "capacity"
                /\ outcome'.raised \in {"capacity", "none"}
                /\ \A i \in 1..Len(Staged(1)) :
                      LET queued == Enqueued(1, Staged(1)[i])
                      IN  /\ Oversize(Staged(1)[i], duration)
                             => Count(queued, after) = Count(queued, before)
                          /\ outcome'.raised = "none" /\ Staged(1)[i].id_receiver # 1
                             => Count(queued, after)
                                  = Count(queued, before) + Count(Staged(1)[i], Staged(1))
       ]_vars

\* a step returned that queued a signal needing exactly the transmit capacity
C7_Witness ==
    /\ outcome.op = "imitation_step"
    /\ outcome.raised = "none"
    /\ \E i \in 1..Len(DictValues(dict_id_receiver_signals_to_send[1])) :
        LET signal == DictValues(dict_id_receiver_signals_to_send[1])[i]
        IN  /\ signal.id_transmitter = 1
            /\ size(signal.memory)
                  = antenna_properties.channel_capacity_transmit * duration_[1]


\* C8: within a tick, assign_device_as_receiver fails on a device in the
\* TRANSMISSION mode and assign_device_as_transmitter fails on a device in the
\* RECEPTION mode, both changing nothing; assign_device_as_transmitter on a
\* transmitting device with its own frequency succeeds, and the device stays
\* once in list_transmission_channel
C8_ModeExclusivity ==
    [][/\ \A a \in LocalReceiveArgs :
            /\ assign_device_as_receiver(1, a[1], a[2])
            /\ antennas[1][a[1]].communication_mode = "TRANSMISSION"
            => /\ outcome'.raised = "mode"
               /\ UNCHANGED <<antennas, dict_reception_channel>>
       /\ \A a \in LocalTransmitArgs :
            /\ assign_device_as_transmitter(1, a[1], a[2], a[3], a[4], a[5])
            /\ antennas[1][a[2]].communication_mode = "RECEPTION"
            => /\ outcome'.raised = "mode"
               /\ UNCHANGED <<antennas, list_transmission_channel,
                              dict_signals_to_send>>
       /\ \A a \in LocalTransmitArgs :
            /\ assign_device_as_transmitter(1, a[1], a[2], a[3], a[4], a[5])
            /\ antennas[1][a[2]].communication_mode = "TRANSMISSION"
            /\ DeviceIn(a[2], list_transmission_channel[1])
            /\ a[4] = antennas[1][a[2]].frequency
            => /\ outcome'.raised = "none"
               /\ antennas'[1][a[2]].communication_mode = "TRANSMISSION"
               /\ Count(a[2], list_transmission_channel'[1]) = 1
               /\ Len(Staged(1)') = Len(Staged(1)) + 1]_vars

\* assign_device_as_transmitter has just failed on a device that
\* assign_device_as_receiver had put in the RECEPTION mode
C8_Witness ==
    /\ outcome.op = "assign_device_as_transmitter"
    /\ outcome.raised = "mode"
    /\ antennas[1][0].communication_mode = "RECEPTION"
    /\ DeviceIn(0, dict_reception_channel[1])

\* C9 as stated: on a device of list_transmission_channel (one that transmits
\* this tick), assign_device_as_transmitter fails exactly when a frequency is
\* given that is not the device's, and the signals staged for one device all
\* have one frequency
C9_AsStated ==
    [][\A a \in LocalTransmitArgs :
        /\ assign_device_as_transmitter(1, a[1], a[2], a[3], a[4], a[5])
        /\ DeviceIn(a[2], list_transmission_channel[1])
        => /\ outcome'.raised # "none"
                <=> (a[4] # None /\ a[4] # antennas[1][a[2]].frequency)
           /\ \A i, j \in 1..Len(DictGet(dict_signals_to_send'[1], a[2])) :
                DictGet(dict_signals_to_send'[1], a[2])[i].frequency
                    = DictGet(dict_signals_to_send'[1], a[2])[j].frequency]_vars

\* C10 as stated: on a device of dict_reception_channel (one that receives this
\* tick), assign_device_as_receiver fails exactly when a frequency is given that
\* is not the device's, and when it succeeds the device is once in
\* dict_reception_channel
C10_AsStated ==
    [][\A a \in LocalReceiveArgs :
        /\ assign_device_as_receiver(1, a[1], a[2])
        /\ DeviceIn(a[1], dict_reception_channel[1])
        /\ antennas[1][a[1]].communication_mode = "RECEPTION"
        => /\ outcome'.raised # "none"
                <=> (a[2] # None /\ a[2] # antennas[1][a[1]].frequency)
           /\ outcome'.raised = "none"
                => Count(a[1], dict_reception_channel'[1]) = 1]_vars


(***************************************************************************)
(* Properties of the scenario                                              *)
(***************************************************************************)

\* the memory blocks spacecraft n has received, over its antennas
ReceivedBlocks(n) ==
    UNION {{get_antennas_signals(n, a)[i] : i \in 1..Len(get_antennas_signals(n, a))} :
            a \in AntennaIds(n)}

\* the steps of the three spacecraft, the medium's step and finalize_step of
\* spacecraft 3 have run
ScenarioDone ==
    /\ {<<"step", n>> : n \in Spacecraft} \subseteq script
    /\ <<"medium", 0>> \in script
    /\ <<"finalize", 3>> \in script

\* C1: 1 transmits the block 121 to 2 on 100 MHz and the block 131 to 3 on 150
\* MHz, 2 is a repeater from 100 MHz to 150 MHz towards 3, and 3 receives on 100
\* MHz and on 150 MHz: after the steps of the three, the medium's step and
\* finalize_step, 3 has received both blocks
C1_Scenario ==
    ScenarioDone =>
        /\ MemoryBlock(121, 3, 4) \in ReceivedBlocks(3)
        /\ MemoryBlock(131, 7, 8) \in ReceivedBlocks(3)

\* the scenario has run to its end, and the relayed block has reached the
\* antenna of 3 that the repeater names
C1_Witness ==
    /\ ScenarioDone
    /\ InList(MemoryBlock(121, 3, 4), get_antennas_signals(3, 1))
    /\ InList(MemoryBlock(131, 7, 8), get_antennas_signals(3, 1))

(***************************************************************************)
(* Properties of the assignments: the repeater                             *)
(***************************************************************************)

\* C11 as stated: assign_device_as_repeater fails when the inbound device is in
\* a mode other than FREE and RELAYING_IN, and fails when the outbound device is
\* in a mode other than FREE and RELAYING_OUT (a device that already transmits
\* or receives this tick)
C11_AsStated ==
    [][\A a \in LocalRepeaterArgs :
        /\ assign_device_as_repeater(1, a[1], a[2], a[3], a[4], a[5], a[6], a[7])
        /\ \/ antennas[1][a[1]].communication_mode \notin {"FREE", "RELAYING_IN"}
           \/ antennas[1][a[2]].communication_mode \notin {"FREE", "RELAYING_OUT"}
        => outcome'.raised # "none"]_vars

\* the role sets of spacecraft n that hold the device id_antenna
Roles(n, id_antenna) ==
    (IF DeviceIn(id_antenna, list_transmission_channel[n])
        THEN {"TRANSMISSION"} ELSE {})
    \cup (IF DeviceIn(id_antenna, dict_reception_channel[n])
        THEN {"RECEPTION"} ELSE {})
    \cup (IF \E i \in 1..Len(list_relay_channel[n]) :
                list_relay_channel[n][i].antenna_in = id_antenna
        THEN {"RELAYING_IN"} ELSE {})
    \cup (IF \E i \in 1..Len(list_relay_channel[n]) :
                list_relay_channel[n][i].antenna_out = id_antenna
        THEN {"RELAYING_OUT"} ELSE {})

AssignOps ==
    {"assign_device_as_transmitter", "assign_device_as_receiver",
     "assign_device_as_repeater"}

\* C12 as stated: after an assign_* call, successful or failed, no device is in
\* more than one of list_transmission_channel, dict_reception_channel, the
\* inbound devices and the outbound devices of list_relay_channel, and the mode
\* of a device is the one of the role set that holds it
C12_AsStated ==
    outcome.op \in AssignOps
    => \A id_antenna \in AntennaIds(1) :
          /\ Cardinality(Roles(1, id_antenna)) <= 1
          /\ \A role \in Roles(1, id_antenna) :
                antennas[1][id_antenna].communication_mode = role

(***************************************************************************)
(* The assignments of spacecraft 1 alone, on both its devices and with      *)
(* frequencies inside and outside the range of the devices                  *)
(***************************************************************************)

\* the number of calls the host makes
MaxAssignCalls == 3

\* the frequencies the host passes: omitted, 0, in the range, below it, above it
AssignFrequencies == {None, 0, MHz(100), MHz(40), MHz(250)}

\* assign_device_as_transmitter: memory_block, id_antenna, id_receiver,
\* frequency, id_antenna_receiver
AssignTransmitArgs ==
    {<<MemoryBlock(121, 3, 4), id_antenna, 2, frequency, 0>> :
        id_antenna \in AntennaIds(1), frequency \in AssignFrequencies}

\* assign_device_as_receiver: id_antenna, frequency
AssignReceiveArgs == AntennaIds(1) \X AssignFrequencies

\* assign_device_as_repeater: id_antenna_in, id_antenna_out, id_destination_relay,
\* id_antenna_destination_relay, frequency_in, frequency_out,
\* save_relayed_signals_locally_relay
AssignRepeaterArgs ==
    {<<id_antenna_in, id_antenna_out, 2, 0, frequency_in, frequency_out, FALSE>> :
        id_antenna_in \in AntennaIds(1), id_antenna_out \in AntennaIds(1),
        frequency_in \in {None, MHz(100), MHz(250)},
        frequency_out \in {None, MHz(150), MHz(40)}}

InitAssign == Constructed(<<1, 2>>)

NextAssign ==
    \/ \E a \in AssignTransmitArgs :
          /\ HostCall(MaxAssignCalls)
          /\ assign_device_as_transmitter(1, a[1], a[2], a[3], a[4], a[5])
    \/ \E a \in AssignReceiveArgs :
          /\ HostCall(MaxAssignCalls)
          /\ assign_device_as_receiver(1, a[1], a[2])
    \/ \E a \in AssignRepeaterArgs :
          /\ HostCall(MaxAssignCalls)
          /\ assign_device_as_repeater(1, a[1], a[2], a[3], a[4], a[5], a[6], a[7])
    \/ HostCall(MaxAssignCalls) /\ imitation_step(1, 1)

SpecAssign == InitAssign /\ [][NextAssign]_vars

\* a frequency outside the range of the devices
OutOfRange(frequency) ==
    \/ frequency < antenna_properties.frequency_range_min
    \/ frequency > antenna_properties.frequency_range_max

\* the frequencies of the devices of spacecraft n
Frequencies(n) == [id_antenna \in AntennaIds(n) |-> antennas[n][id_antenna].frequency]

\* C13: the frequency of every device is always within
\* [frequency_range_min, frequency_range_max], the middle of the range at
\* first; an assignment that reaches set_frequency with a frequency outside the
\* range fails, and that set_frequency leaves the frequency of its device as
\* it was (a repeater assignment whose inbound frequency is in the range has
\* tuned the inbound device before set_frequency fails on the outbound one)
C13_FrequencyInRange ==
    /\ [](\A n \in Ids : \A id_antenna \in AntennaIds(n) :
            ~OutOfRange(antennas[n][id_antenna].frequency))
    /\ [][/\ \A a \in AssignTransmitArgs :
               /\ a[4] \notin {None, 0} /\ OutOfRange(a[4])
               /\ assign_device_as_transmitter(1, a[1], a[2], a[3], a[4], a[5])
               => /\ outcome'.raised # "none"
                  /\ Frequencies(1)' = Frequencies(1)
          /\ \A a \in AssignReceiveArgs :
               /\ a[2] \notin {None, 0} /\ OutOfRange(a[2])
               /\ assign_device_as_receiver(1, a[1], a[2])
               => /\ outcome'.raised # "none"
                  /\ Frequencies(1)' = Frequencies(1)
          /\ \A a \in AssignRepeaterArgs :
               /\ a[5] \notin {None, 0} /\ OutOfRange(a[5])
               /\ assign_device_as_repeater(1, a[1], a[2], a[3], a[4], a[5], a[6], a[7])
               => /\ outcome'.raised # "none"
                  /\ Frequencies(1)' = Frequencies(1)
          /\ \A a \in AssignRepeaterArgs :
               /\ a[6] \notin {None, 0} /\ OutOfRange(a[6])
               /\ assign_device_as_repeater(1, a[1], a[2], a[3], a[4], a[5], a[6], a[7])
               => /\ outcome'.raised # "none"
                  /\ Frequencies(1)'[a[2]] =
                       IF /\ outcome'.raised = "range" /\ a[1] = a[2]
                          /\ a[5] \notin {None, 0} /\ ~OutOfRange(a[5])
                       THEN a[5] ELSE Frequencies(1)[a[2]]
                  /\ \A id_antenna \in AntennaIds(1) \ {a[1], a[2]} :
                       Frequencies(1)'[id_antenna] = Frequencies(1)[id_antenna]
          /\ (outcome'.raised = "range" => outcome'.op \in AssignOps)]_vars

\* set_frequency has just failed on device 0, which an earlier assignment had
\* tuned to 100 MHz, away from the middle of the range
C13_Witness ==
    /\ outcome.raised = "range"
    /\ outcome.op = "assign_device_as_receiver"
    /\ antennas[1][0].frequency = MHz(100)
    /\ antennas[1][0].frequency # TransmitReceiveDevice.frequency

(***************************************************************************)
(* The medium with registration: consumers 1 and 2 are registered at first, *)
(* 3 is registered by the host at some moment, or never                     *)
(***************************************************************************)

\* the number of calls the host makes
MaxRegistryCalls == 4

\* register_consumer: frequency, id_consumer
RegistryRegisterArgs == {<<MHz(150), 3>>, <<MHz(120), 3>>, <<MHz(120), 1>>}

\* send_signal: the consumer, id_receiver, frequency, id_antenna_receiver
RegistrySendArgs ==
    {<<1, 3, MHz(150), 0>>, <<1, 3, None, 0>>, <<1, 2, MHz(100), 0>>,
     <<3, 1, None, 0>>, <<1, 1, MHz(100), 0>>}

\* listen_ether: the consumer, id_antenna_receiver, frequency_recipiency
RegistryListenArgs ==
    {<<3, 0, MHz(150)>>, <<3, 0, None>>, <<2, 0, MHz(100)>>, <<1, 0, None>>}

\* i_am_repeater: the consumer, id_destination_relay, id_antenna_receiver,
\* id_antenna_destination_relay, frequency_recipiency,
\* frequency_transmission_relay, save_relayed_signals_locally_relay
RegistryRelayArgs == {<<2, 3, 0, 0, MHz(100), MHz(150), FALSE>>}

InitRegistry == Constructed(<<1, 2>>)

NextRegistry ==
    \/ \E a \in RegistryRegisterArgs :
            /\ HostCall(MaxRegistryCalls)
            /\ register_consumer(a[1], a[2])
    \/ \E a \in RegistrySendArgs :
            /\ HostCall(MaxRegistryCalls)
            /\ SendSignal(a[1], a[2], MemoryBlock(121, 3, 4), a[3], a[4])
    \/ \E a \in RegistryListenArgs :
            /\ HostCall(MaxRegistryCalls)
            /\ ListenEther(a[1], a[2], a[3])
    \/ \E a \in RegistryRelayArgs :
            /\ HostCall(MaxRegistryCalls)
            /\ IAmRepeater(a[1], a[2], a[3], a[4], a[5], a[6], a[7])
    \/ HostCall(MaxRegistryCalls) /\ MediumStep

SpecRegistry == InitRegistry /\ [][NextRegistry]_vars

\* C14: register_consumer of an id that is registered leaves the consumer of
\* that id as it is (its outbox, inbox, listen tasks, cache and properties) and
\* the list of consumers too; register_consumer of a new id adds one consumer;
\* no id is ever registered twice
C14_RegisterIdempotent ==
    /\ [](\A i, j \in 1..Len(consumers) : consumers[i] = consumers[j] => i = j)
    /\ [][\A a \in RegistryRegisterArgs :
            register_consumer(a[1], a[2])
            => IF Registered(a[2])
               THEN UNCHANGED mediumVars
               ELSE /\ consumers' = Append(consumers, a[2])
                    /\ properties'[a[2]] = a[1]]_vars

\* register_consumer has just been called for consumer 1 (3 is not registered)
\* with another frequency than the one of its properties, when 1 had a signal in
\* its outbox and a listen task
C14_Witness ==
    /\ outcome.op = "register_consumer"
    /\ consumers = <<1, 2>>
    /\ dict_id_receiver_signals_to_send[1] # <<>>
    /\ listen_ether_tasks[1] # <<>>
    /\ properties[1] = ConsumerFrequency(1)

(***************************************************************************)
(* Properties of send_signal, listen_ether and i_am_repeater                *)
(***************************************************************************)

\* C15: send_signal of a signal to the consumer itself returns False and leaves
\* dict_id_receiver_signals_to_send as it is; so every signal in the
\* dictionary of a consumer has the consumer as its id_transmitter, another
\* consumer as its id_receiver, and is kept under the key id_receiver
C15_SelfAddressed ==
    /\ [](\A c \in Ids : \A i \in 1..Len(dict_id_receiver_signals_to_send[c]) :
            \A j \in 1..Len(dict_id_receiver_signals_to_send[c][i].value) :
                LET signal == dict_id_receiver_signals_to_send[c][i].value[j]
                IN  /\ signal.id_transmitter = c
                    /\ signal.id_receiver # c
                    /\ signal.id_receiver = dict_id_receiver_signals_to_send[c][i].key)
    /\ [][\A a \in MediumSendArgs :
            /\ a[1] = a[2]
            /\ SendSignal(a[1], a[2], MemoryBlock(121, 3, 4), a[3], a[4])
            => /\ outcome'.returned = "False"
               /\ UNCHANGED dict_id_receiver_signals_to_send]_vars

\* send_signal has just returned False to a consumer that has a signal in
\* dict_id_receiver_signals_to_send
C15_Witness ==
    /\ outcome.op = "send_signal"
    /\ outcome.returned = "False"
    /\ dict_id_receiver_signals_to_send[1] # <<>>

\* the signals consumer c holds for id_receiver in dict_id_receiver_signals_to_send
Outbox(c, id_receiver) == DictGet(dict_id_receiver_signals_to_send[c], id_receiver)

\* the number of signals in dict_frequency_signal_to_receive of consumer c
Inbox(c) ==
    Sum([i \in 1..Len(dict_frequency_signal_to_receive[c]) |->
            Len(dict_frequency_signal_to_receive[c][i].value)],
        1..Len(dict_frequency_signal_to_receive[c]))

\* C16 as stated: send_signal of a signal whose id_receiver is not registered
\* changes no dict_id_receiver_signals_to_send, so that no consumer holds a
\* signal for an id that is not registered (and a later registration of the id
\* finds nothing to deliver)
C16_AsStated ==
    /\ [][\A a \in RegistrySendArgs :
            /\ ~Registered(a[2])
            /\ SendSignal(a[1], a[2], MemoryBlock(121, 3, 4), a[3], a[4])
            => UNCHANGED dict_id_receiver_signals_to_send]_vars
    /\ [](\A c, id_receiver \in Ids :
            ~Registered(id_receiver) => Outbox(c, id_receiver) = <<>>)

(***************************************************************************)
(* Properties of the medium's step: receivers that are not registered       *)
(***************************************************************************)

\* C17: add_signal of a signal whose id_receiver is not registered, as it was
\* sent or as a relay task has rewritten it, drops the signal without an
\* exception: the step returns, every signal of the queue has its call of
\* add_signal and one more for every relay, every pass of the loop is made at
\* a registered consumer, the inboxes hold the signals of the deposits and
\* no other, and every signal of the queue with a registered receiver passes
\* every task of that receiver
C17_UnknownReceiver ==
    [][MediumStep =>
        LET queued == signals_to_send(1)
            log == outcome'.log
        IN  /\ outcome'.raised = "none"
            /\ outcome'.returned = "True"
            /\ outcome'.calls = Len(queued) + Cardinality(Relays(log))
            /\ \A i \in 1..Len(log) : Registered(log[i].recipient)
            /\ \A id \in Ids :
                  Inbox(id)' = Cardinality(Deposited(log, id))
            /\ \A s \in 1..Len(queued) :
                  Registered(queued[s].id_receiver)
                  => \A t \in 1..Len(listen_ether_tasks[queued[s].id_receiver]) :
                        \E i \in 1..Len(log) :
                            /\ log[i].object = s
                            /\ log[i].recipient = queued[s].id_receiver
                            /\ log[i].listener
                                  = listen_ether_tasks[queued[s].id_receiver][t]]_vars

\* a medium step has just returned after three calls of add_signal and one pass
\* of the loop: the first signal of the queue was sent to consumer 3, which is
\* not registered, and the second was relayed to 3 by a task of its receiver
C17_Witness ==
    /\ AfterMediumStep
    /\ ~Registered(3)
    /\ outcome.calls = 3
    /\ Len(outcome.log) = 1
    /\ outcome.log[1].object = 2
    /\ outcome.log[1].event = "relay"
    /\ outcome.log[1].listener.id_destination_relay = 3

(***************************************************************************)
(* Properties of the medium's step: the tasks and the queue of one tick     *)
(***************************************************************************)

\* C18: after a medium step dict_id_receiver_signals_to_send and
\* listen_ether_tasks of every consumer are empty; every pass of the step's
\* loop matches a signal that was queued when the step began against a task
\* that was registered when the step began, so a step that begins with no task
\* delivers nothing, whatever tasks the steps before it had
C18_SingleTick ==
    [][MediumStep =>
        LET queued == signals_to_send(1)
            log == outcome'.log
        IN  /\ \A id \in Ids :
                  /\ dict_id_receiver_signals_to_send'[id] = <<>>
                  /\ listen_ether_tasks'[id] = <<>>
            /\ \A i \in 1..Len(log) :
                  /\ log[i].object \in 1..Len(queued)
                  /\ InList(log[i].listener, listen_ether_tasks[log[i].recipient])
            /\ ActiveTasks = 0
                  => /\ log = <<>>
                     /\ \A id \in Ids : dict_frequency_signal_to_receive'[id] = <<>>]_vars

\* the fourth call of the host, a medium step that began with a signal in the
\* queue and no task, has just returned: nothing was delivered and the queue
\* is empty
C18_Witness ==
    /\ AfterMediumStep
    /\ host_calls = 4
    /\ outcome.calls = 1
    /\ outcome.log = <<>>
    /\ ActiveTasks = 0
    /\ QueuedSignals = 0

(***************************************************************************)
(* Properties of listen_ether and i_am_repeater                             *)
(***************************************************************************)

\* the tasks of a list that listen without relaying
Terminal(tasks) ==
    {i \in 1..Len(tasks) : tasks[i].id_destination_relay = None}

\* C19: listen_ether appends its task to listen_ether_tasks only when no equal
\* task is in the list, and returns True exactly when it has appended it; the
\* list never holds two equal tasks that listen without relaying
C19_ListenOnce ==
    /\ [](\A c \in Ids : \A i, j \in Terminal(listen_ether_tasks[c]) :
            listen_ether_tasks[c][i] = listen_ether_tasks[c][j] => i = j)
    /\ [][\A a \in MediumListenArgs :
            ListenEther(a[1], a[2], a[3])
            => LET task == ListenEtherTask(
                              IF a[3] = None THEN properties[a[1]] ELSE a[3],
                              a[2], None, None, None, FALSE)
               IN  IF InList(task, listen_ether_tasks[a[1]])
                   THEN /\ UNCHANGED listen_ether_tasks
                        /\ outcome'.returned = "False"
                   ELSE /\ listen_ether_tasks' = [listen_ether_tasks EXCEPT
                                                    ![a[1]] = Append(@, task)]
                        /\ outcome'.returned = "True"]_vars

\* listen_ether has just returned False to consumer 2, whose list holds the
\* task that an earlier call had appended, and no other
C19_Witness ==
    /\ outcome.op = "listen_ether"
    /\ outcome.returned = "False"
    /\ Len(listen_ether_tasks[2]) = 1
    /\ Terminal(listen_ether_tasks[2]) = {1}

\* C20 as stated: i_am_repeater does not append a task that is equal to one of
\* listen_ether_tasks and returns False; otherwise it appends the task and
\* returns True
C20_AsStated ==
    [][\A a \in MediumRelayArgs :
        /\ a[1] # a[2]
        /\ IAmRepeater(a[1], a[2], a[3], a[4], a[5], a[6], a[7])
        => LET task == ListenEtherTask(
                          IF a[5] = None THEN properties[a[1]] ELSE a[5], a[3],
                          IF a[6] = None THEN properties[a[1]] ELSE a[6],
                          a[2], a[4], a[7])
           IN  IF InList(task, listen_ether_tasks[a[1]])
               THEN /\ UNCHANGED listen_ether_tasks
                    /\ outcome'.returned = "False"
               ELSE /\ listen_ether_tasks' = [listen_ether_tasks EXCEPT
                                                ![a[1]] = Append(@, task)]
                    /\ outcome'.returned = "True"]_vars

(***************************************************************************)
(* The inbox: consumer 1 sends to consumer 2, which listens, relays back    *)
(* to 1 and reads its inbox with receive_signal                             *)
(***************************************************************************)

\* the number of calls the host makes
MaxInboxCalls == 4

\* send_signal: the consumer, id_receiver, memory, frequency, id_antenna_receiver
InboxSendArgs ==
    {<<1, 2, MemoryBlock(121, 3, 4), MHz(100) + 1, 0>>,
     <<1, 2, MemoryBlock(122, 0, 5), MHz(100), 0>>,
     <<1, 2, MemoryBlock(121, 3, 4), None, 1>>}

\* listen_ether: the consumer, id_antenna_receiver, frequency_recipiency
InboxListenArgs ==
    {<<2, 0, MHz(110)>>, <<2, 0, MHz(100) + 1>>, <<2, 1, None>>, <<1, 0, MHz(100)>>}

\* i_am_repeater: the consumer, id_destination_relay, id_antenna_receiver,
\* id_antenna_destination_relay, frequency_recipiency,
\* frequency_transmission_relay, save_relayed_signals_locally_relay
InboxRelayArgs ==
    {<<2, 1, 0, 0, MHz(100), MHz(100), TRUE>>,
     <<2, 1, 0, 0, MHz(100), MHz(100), FALSE>>}

\* receive_signal: the consumer, frequency
InboxReceiveArgs ==
    {<<2, MHz(110)>>, <<2, MHz(110) + 1>>, <<2, MHz(100)>>, <<2, None>>, <<1, None>>}

InitInbox == Constructed(<<1, 2>>)

NextInbox ==
    \/ \E a \in InboxSendArgs :
            /\ HostCall(MaxInboxCalls)
            /\ SendSignal(a[1], a[2], a[3], a[4], a[5])
    \/ \E a \in InboxListenArgs :
            /\ HostCall(MaxInboxCalls)
            /\ ListenEther(a[1], a[2], a[3])
    \/ \E a \in InboxRelayArgs :
            /\ HostCall(MaxInboxCalls)
            /\ IAmRepeater(a[1], a[2], a[3], a[4], a[5], a[6], a[7])
    \/ \E a \in InboxReceiveArgs :
            /\ HostCall(MaxInboxCalls)
            /\ ReceiveSignal(a[1], a[2])
    \/ HostCall(MaxInboxCalls) /\ MediumStep

SpecInbox == InitInbox /\ [][NextInbox]_vars

\* the passes of the log that put the signal in the recipient's inbox under
\* key, in the order of the log
DepositedUnder(log, recipient, key) ==
    SelectSeq(log, LAMBDA pass :
        /\ pass.recipient = recipient
        /\ int(pass.listener.frequency_recipiency) = key
        /\ \/ pass.event = "deposit"
           \/ pass.event = "relay" /\ pass.listener.save_relayed_signals_locally_relay)

\* the keys a list can be kept under: the frequencies of the model, truncated
InboxKeys == 0..int(antenna_properties.frequency_range_max)

\* C21: a signal that the medium's step deposits for a task that listens on f
\* is kept in dict_frequency_signal_to_receive under int(f), the truncated
\* frequency of the task and not that of the signal, and receive_signal(f)
\* returns it after the step; receive_signal returns [] for a key nothing was
\* deposited under, and it changes nothing
C21_RoundTrip ==
    /\ [](AfterMediumStep =>
            \A c \in Ids : \A key \in InboxKeys :
                LET deposits == DepositedUnder(outcome.log, c, key)
                    kept == DictGet(dict_frequency_signal_to_receive[c], key)
                IN  /\ Len(kept) = Len(deposits)
                    /\ \A i \in 1..Len(deposits) :
                          /\ kept[i].memory = deposits[i].signal.memory
                          /\ kept[i].id_transmitter = deposits[i].signal.id_transmitter
                          /\ Relays(outcome.log) = {} => kept[i] = deposits[i].signal
                          /\ receive_signal(c, deposits[i].listener.frequency_recipiency)
                                = kept)
    /\ [][\A a \in InboxReceiveArgs :
            ReceiveSignal(a[1], a[2])
            => LET key == IF a[2] = None THEN properties[a[1]] \div FrequencyUnit
                          ELSE a[2] \div FrequencyUnit
               IN  /\ UNCHANGED mediumVars
                   /\ outcome'.log = DictGet(dict_frequency_signal_to_receive[a[1]], key)
                   /\ ~DictHas(dict_frequency_signal_to_receive[a[1]], key)
                        => outcome'.log = <<>>]_vars

\* receive_signal has just returned to consumer 2 the one signal of its inbox:
\* a signal of 100.5 MHz, kept under 110, the truncated frequency of the
\* task that listened on 110 MHz
C21_Witness ==
    /\ outcome.op = "receive_signal"
    /\ Len(outcome.log) = 1
    /\ outcome.log[1].frequency = MHz(100) + 1
    /\ dict_frequency_signal_to_receive[2] = <<[key |-> 110, value |-> outcome.log]>>
    /\ dict_frequency_signal_to_receive[1] = <<>>

(***************************************************************************)
(* The medium with malformed tasks: listen_ether is called without an       *)
(* antenna, which the step of the medium answers with an exception          *)
(***************************************************************************)

\* the number of calls the host makes
MaxMalformedCalls == 4

\* send_signal: the consumer, id_receiver, frequency, id_antenna_receiver
MalformedSendArgs ==
    {<<1, 2, MHz(100), 0>>, <<1, 2, MHz(150), 0>>, <<2, 1, MHz(100), 0>>}

\* listen_ether: the consumer, id_antenna_receiver, frequency_recipiency
MalformedListenArgs ==
    {<<2, None, MHz(100)>>, <<2, 0, MHz(100)>>, <<1, None, None>>, <<1, 0, None>>}

\* i_am_repeater: the consumer, id_destination_relay, id_antenna_receiver,
\* id_antenna_destination_relay, frequency_recipiency,
\* frequency_transmission_relay, save_relayed_signals_locally_relay
MalformedRelayArgs ==
    {<<2, 1, 0, 0, MHz(100), MHz(100), FALSE>>,
     <<2, 1, 0, 0, MHz(100), MHz(100), TRUE>>}

InitMalformed == Constructed(<<1, 2>>)

NextMalformed ==
    \/ \E a \in MalformedSendArgs :
            /\ HostCall(MaxMalformedCalls)
            /\ SendSignal(a[1], a[2], MemoryBlock(121, 3, 4), a[3], a[4])
    \/ \E a \in MalformedListenArgs :
            /\ HostCall(MaxMalformedCalls)
            /\ ListenEther(a[1], a[2], a[3])
    \/ \E a \in MalformedRelayArgs :
            /\ HostCall(MaxMalformedCalls)
            /\ IAmRepeater(a[1], a[2], a[3], a[4], a[5], a[6], a[7])
    \/ HostCall(MaxMalformedCalls) /\ MediumStep

SpecMalformed == InitMalformed /\ [][NextMalformed]_vars

\* consumer c has a task without an antenna
Malformed(c) ==
    \E t \in 1..Len(listen_ether_tasks[c]) :
        listen_ether_tasks[c][t].id_antenna_receiver = None

\* C22: a medium step in which add_signal comes to a task without an antenna
\* ends with an exception, whether the frequency of the signal fits the task
\* or not: the step of a queue that holds a signal for a consumer with such a
\* task raises, no pass of the loop is made for such a task, neither as a
\* mismatch nor as a match, and a step raises only when a consumer has such a
\* task
C22_MalformedTaskFatal ==
    [][MediumStep =>
        LET queued == signals_to_send(1)
            log == outcome'.log
        IN  /\ (\E s \in 1..Len(queued) :
                    Registered(queued[s].id_receiver) /\ Malformed(queued[s].id_receiver))
                => /\ outcome'.raised = "AssertionError"
                   /\ outcome'.returned = "None"
            /\ \A i \in 1..Len(log) : log[i].listener.id_antenna_receiver # None
            /\ outcome'.raised # "none"
                => /\ outcome'.raised = "AssertionError"
                   /\ \E c \in Ids : Malformed(c)]_vars

\* the medium's step has just raised: the one signal of the queue, of 150 MHz,
\* was for consumer 2, whose one task listens on 100 MHz without an antenna
C22_Witness ==
    /\ outcome.op = "medium.imitation_step"
    /\ outcome.raised = "AssertionError"
    /\ QueuedSignals = 1
    /\ Outbox(1, 2) # <<>>
    /\ Outbox(1, 2)[1].frequency = MHz(150)
    /\ Len(listen_ether_tasks[2]) = 1
    /\ listen_ether_tasks[2][1].frequency_recipiency = MHz(100)
    /\ Malformed(2)

\* the passes of the log at recipient with this event
Passes(log, recipient, event) ==
    {i \in 1..Len(log) : log[i].recipient = recipient /\ log[i].event = event}

\* C23: a signal that a relay task of a consumer relays is put in the inbox of
\* that consumer, under the truncated frequency the task listens on, exactly
\* when the task has save_relayed_signals_locally_relay: the inbox of a
\* consumer holds one signal for every deposit and for every relay of a task
\* with the flag, and none for a relay of a task without it
C23_KeepLocalCopy ==
    AfterMediumStep =>
        \A c \in Ids :
            LET log == outcome.log
                relays == Passes(log, c, "relay")
                kept == {i \in relays : log[i].listener.save_relayed_signals_locally_relay}
            IN  /\ Inbox(c) = Cardinality(Passes(log, c, "deposit")) + Cardinality(kept)
                /\ \A i \in kept :
                      \E j \in 1..Len(receive_signal(c, log[i].listener.frequency_recipiency)) :
                          LET signal == receive_signal(
                                            c, log[i].listener.frequency_recipiency)[j]
                          IN  /\ signal.memory = log[i].signal.memory
                              /\ signal.id_transmitter = log[i].signal.id_transmitter
                /\ (relays # {} /\ kept = {} /\ Passes(log, c, "deposit") = {})
                      => dict_frequency_signal_to_receive[c] = <<>>

\* a medium step has just returned in which consumer 2 relayed the one signal
\* of the queue with a task that keeps a copy: its inbox holds one signal,
\* under the truncated frequency of the task
C23_Witness ==
    /\ AfterMediumStep
    /\ outcome.calls = 2
    /\ Cardinality(Passes(outcome.log, 2, "relay")) = 1
    /\ \A i \in Passes(outcome.log, 2, "relay") :
          /\ outcome.log[i].listener.save_relayed_signals_locally_relay
          /\ DictHas(dict_frequency_signal_to_receive[2],
                     int(outcome.log[i].listener.frequency_recipiency))
    /\ Inbox(2) = 1

(***************************************************************************)
(* Properties of finalize_step                                              *)
(***************************************************************************)

\* the devices of the copy of the reception channels that finalize_step reads
SnapshotIds(n) ==
    {dict_reception_channel_from_prev_step[n][i].id_antenna :
        i \in 1..Len(dict_reception_channel_from_prev_step[n])}

C25_AsStated ==
    [][(/\ outcome.op = "finalize_step"
        /\ outcome.raised = "none"
        /\ finalize_step(1))
       => \A id_antenna \in AntennaIds(1) :
            get_antennas_signals(1, id_antenna)' = get_antennas_signals(1, id_antenna)]_vars

\* the memory blocks finalize_step is to hand to the device id_antenna of the
\* copy of the reception channels of spacecraft n: those of the signals that
\* the consumer holds under the truncated frequency of the copy, sent to this
\* device and within its channel_capacity_receive
Surfaced(n, id_antenna) ==
    LET entry == CHOOSE e \in {dict_reception_channel_from_prev_step[n][i] :
                                i \in 1..Len(dict_reception_channel_from_prev_step[n])} :
                    e.id_antenna = id_antenna
        bucket == DictGet(dict_frequency_signal_to_receive[n],
                          entry.frequency \div FrequencyUnit)
        passed == SelectSeq(bucket, LAMBDA signal :
                    /\ signal.id_antenna_receiver = id_antenna
                    /\ signal.memory.block_end - signal.memory.block_start
                          <= antenna_properties.channel_capacity_receive * duration_[n])
    IN  [i \in 1..Len(passed) |-> passed[i].memory]

\* C26 as stated: after finalize_step, get_antennas_signals of a device of the
\* copy of the reception channels is exactly the list of the memory blocks of
\* the signals of the consumer's inbox, under the truncated frequency of the
\* copy, that were sent to the device and are within its
\* channel_capacity_receive; finalize_step raises for no signal
C26_AsStated ==
    [][finalize_step(1)
       => /\ outcome'.raised = "none"
          /\ \A id_antenna \in SnapshotIds(1) :
                get_antennas_signals(1, id_antenna)' = Surfaced(1, id_antenna)]_vars


C28_StagedOnly ==
    [][/\ outcome'.op \in AssignOps => UNCHANGED mediumVars
       /\ \A duration \in Durations :
            (outcome'.raised = "none" /\ imitation_step(1, duration)) =>
               /\ \A i \in 1..Len(Staged(1)) :
                     Staged(1)[i].id_receiver # 1 =>
                        InList(Enqueued(1, Staged(1)[i]),
                               DictValues(dict_id_receiver_signals_to_send'[1]))
               /\ \A i \in 1..Len(dict_reception_channel[1]) :
                     \E t \in Terminal(listen_ether_tasks'[1]) :
                        listen_ether_tasks'[1][t].id_antenna_receiver
                           = dict_reception_channel[1][i]
               /\ \A i \in 1..Len(list_relay_channel[1]) :
                     \E t \in 1..Len(listen_ether_tasks'[1]) :
                        /\ listen_ether_tasks'[1][t].id_antenna_receiver
                              = list_relay_channel[1][i].antenna_in
                        /\ listen_ether_tasks'[1][t].id_destination_relay
                              = list_relay_channel[1][i].id_destination_relay
      ]_vars

\* after a successful assign_device_as_receiver a reception channel is staged
\* at spacecraft 1 while its consumer has no listen task and no signal to send
C28_Witness ==
    /\ outcome.op = "assign_device_as_receiver"
    /\ outcome.raised = "none"
    /\ dict_reception_channel[1] # <<>>
    /\ dict_id_receiver_signals_to_send[1] = <<>>
    /\ listen_ether_tasks[1] = <<>>


(***************************************************************************)
(* Properties of add_signal's loop over the listen tasks                   *)
(***************************************************************************)

\* the positions of the listen tasks of consumer c that the signal fits, by
\* its frequency and by its antenna
Matching(c, signal) ==
    {t \in 1..Len(listen_ether_tasks[c]) :
        /\ can_consumer_receive_signal_by_frequency(
              signal.frequency, listen_ether_tasks[c][t].frequency_recipiency)
        /\ can_consumer_receive_signal_by_antenna(
              signal.id_antenna_receiver, listen_ether_tasks[c][t].id_antenna_receiver)}

\* the log has a pass in which the signal sent as sent was handed to the task
\* listener of recipient: put with the received signals for a task that only
\* listens, relayed for a task that relays
HandedTo(log, sent, recipient, listener) ==
    \E j \in 1..Len(log) :
        /\ log[j].recipient = recipient
        /\ log[j].listener = listener
        /\ log[j].signal.id_transmitter = sent.id_transmitter
        /\ log[j].signal.memory = sent.memory
        /\ log[j].event = IF listener.id_destination_relay = None
                          THEN "deposit" ELSE "relay"

\* C29 as stated: in a step of the medium, a queued signal that fits two or
\* more listen tasks of its receiver is handed to each of them (deposited for
\* a task that listens, relayed for a task that relays), not only to the first
C29_AsStated ==
    [][(outcome'.op = "medium.imitation_step" /\ outcome'.raised = "none") =>
        \A c \in Ids :
          \A i \in 1..Len(DictValues(dict_id_receiver_signals_to_send[c])) :
            LET sent == DictValues(dict_id_receiver_signals_to_send[c])[i]
            IN  (Registered(sent.id_receiver)
                 /\ Cardinality(Matching(sent.id_receiver, sent)) >= 2)
                => \A t \in Matching(sent.id_receiver, sent) :
                      HandedTo(outcome'.log, sent, sent.id_receiver,
                                listen_ether_tasks[sent.id_receiver][t])
      ]_vars


(***************************************************************************)
(* Properties of the order of the received signals                         *)
(***************************************************************************)

\* the places a signal can come from in the consumers' signals to send: the
\* position of the sender among the consumers, of the receiver among the keys
\* of its dict_id_receiver_signals_to_send, and of the signal in the key's list
Origins(signal) ==
    UNION {UNION {{<<p, e, q>> :
                     q \in {q \in 1..Len(dict_id_receiver_signals_to_send[consumers[p]][e].value) :
                              LET queued == dict_id_receiver_signals_to_send[consumers[p]][e].value[q]
                              IN  /\ queued.id_transmitter = signal.id_transmitter
                                  /\ queued.memory = signal.memory}} :
                  e \in 1..Len(dict_id_receiver_signals_to_send[consumers[p]])} :
           p \in 1..Len(consumers)}

\* the place a is not after the place b: by sender, then by key, then by position
NotAfter(a, b) ==
    \/ a[1] < b[1]
    \/ a[1] = b[1] /\ a[2] < b[2]
    \/ a[1] = b[1] /\ a[2] = b[2] /\ a[3] <= b[3]

C31_AsStated ==
    AfterMediumStep =>
        \A c \in Ids :
            /\ \A i \in 1..Len(DictValues(dict_frequency_signal_to_receive[c])) :
                  DictValues(dict_frequency_signal_to_receive[c])[i].id_receiver = c
            /\ \A i \in 1..Len(DictValues(dict_getting_information[c])) :
                  DictValues(dict_getting_information[c])[i].id_receiver = c


\* C32 as stated: in a step of the medium every listen task of a consumer is
\* tested against the signal as it arrived at the consumer, whose id_receiver
\* is the consumer: a relay for an earlier task does not change what the later
\* tasks are tested against, and the consumer neither keeps nor relays a
\* signal whose id_receiver is another consumer
C32_AsStated ==
    AfterMediumStep =>
        \A j \in 1..Len(outcome.log) :
            outcome.log[j].signal.id_receiver = outcome.log[j].recipient


(***************************************************************************)
(* Properties of the assignments' results                                  *)
(***************************************************************************)

\* C33 as stated: an assignment that raises (the device works in another mode,
\* or on another frequency, or the frequency is outside the device's range)
\* leaves the devices' modes and frequencies, dict_signals_to_send,
\* list_transmission_channel, dict_reception_channel and list_relay_channel
\* as they were
C33_AsStated ==
    [][(outcome'.op \in AssignOps /\ outcome'.raised # "none")
       => UNCHANGED <<antennas, dict_signals_to_send, list_transmission_channel,
                      dict_reception_channel, list_relay_channel>>]_vars


(***************************************************************************)
(* Properties of the local step                                            *)
(***************************************************************************)

\* the listen task the local step asks for, for the device id_antenna of the
\* reception channels of spacecraft n
ListenRequest(n, id_antenna) ==
    ListenEtherTask(antennas[n][id_antenna].frequency, id_antenna, None, None, None, FALSE)

\* the relay task the local step asks for, for a relay channel of spacecraft n
RelayRequest(n, channel) ==
    ListenEtherTask(antennas[n][channel.antenna_in].frequency, channel.antenna_in,
                    antennas[n][channel.antenna_out].frequency,
                    channel.id_destination_relay,
                    channel.id_antenna_destination_relay,
                    channel.save_relayed_signals_locally_relay)

\* C34: when the local step returns, dict_signals_to_send,
\* list_transmission_channel, dict_reception_channel and list_relay_channel
\* are empty, every device is FREE and on the frequency it had, and
\* dict_reception_channel_from_prev_step holds the devices that
\* dict_reception_channel held before the step, each with its frequency; the
\* consumer has a listen task for each of these devices and a relay task for
\* each relay channel, with the frequencies of the channel's devices, and no
\* other new task
C34_LocalStepPostState ==
    [][\A duration \in Durations :
        (outcome'.raised = "none" /\ imitation_step(1, duration)) =>
           /\ dict_signals_to_send'[1] = <<>>
           /\ list_transmission_channel'[1] = <<>>
           /\ dict_reception_channel'[1] = <<>>
           /\ list_relay_channel'[1] = <<>>
           /\ \A a \in AntennaIds(1) :
                 /\ antennas'[1][a].communication_mode = "FREE"
                 /\ antennas'[1][a].frequency = antennas[1][a].frequency
           /\ dict_reception_channel_from_prev_step'[1] =
                 [i \in 1..Len(dict_reception_channel[1]) |->
                     [id_antenna |-> dict_reception_channel[1][i],
                      frequency |-> antennas[1][dict_reception_channel[1][i]].frequency]]
           /\ \A i \in 1..Len(dict_reception_channel[1]) :
                 InList(ListenRequest(1, dict_reception_channel[1][i]),
                        listen_ether_tasks'[1])
           /\ \A i \in 1..Len(list_relay_channel[1]) :
                 list_relay_channel[1][i].id_destination_relay # 1 =>
                    InList(RelayRequest(1, list_relay_channel[1][i]),
                           listen_ether_tasks'[1])
           /\ Len(listen_ether_tasks'[1]) <= Len(listen_ether_tasks[1])
                 + Len(dict_reception_channel[1]) + Len(list_relay_channel[1])
      ]_vars

\* a local step has returned that took a reception channel: the device is FREE
\* again, the step's copy holds it and the consumer listens for it
C34_Witness ==
    /\ outcome.op = "imitation_step"
    /\ outcome.raised = "none"
    /\ dict_reception_channel_from_prev_step[1] # <<>>
    /\ dict_reception_channel[1] = <<>>
    /\ antennas[1][0].communication_mode = "FREE"
    /\ Terminal(listen_ether_tasks[1]) # {}


(***************************************************************************)
(* Properties of the signals that no task fits                             *)
(***************************************************************************)

\* C35: a queued signal that fits no listen task of its receiver (or whose
\* receiver is not registered) when the medium's step takes it is not
\* delivered: the step returns without an exception, every pass of the
\* signal is a mismatch at its receiver, so that it is put in no consumer's
\* dict_frequency_signal_to_receive or dict_getting_information, and after the
\* step no consumer holds it among its signals to send, so that no task of a
\* later step can receive it
C35_NeverDelivered ==
    [][MediumStep =>
        \A p \in 1..Len(signals_to_send(1)) :
           LET sent == signals_to_send(1)[p]
           IN  (~Registered(sent.id_receiver) \/ Matching(sent.id_receiver, sent) = {})
               => /\ outcome'.raised = "none"
                  /\ \A j \in 1..Len(outcome'.log) :
                        outcome'.log[j].object = p =>
                           /\ outcome'.log[j].event = "mismatch"
                           /\ outcome'.log[j].recipient = sent.id_receiver
                           /\ outcome'.log[j].signal = sent
                  /\ \A id \in Ids :
                        ~InList(sent, DictValues(dict_id_receiver_signals_to_send'[id]))
      ]_vars

\* the medium's step has taken a signal that fitted no task of its receiver:
\* the receiver's only pass is a mismatch and no consumer has received anything
C35_Witness ==
    /\ AfterMediumStep
    /\ outcome.calls = 1
    /\ Len(outcome.log) = 1
    /\ outcome.log[1].event = "mismatch"
    /\ \A id \in Ids : dict_frequency_signal_to_receive[id] = <<>>
    /\ \A id \in Ids : dict_id_receiver_signals_to_send[id] = <<>>


(***************************************************************************)
(* Properties of the relay hop                                             *)
(***************************************************************************)

\* C36: in a step of the medium, the pass that follows a relay of a signal,
\* made at the relay's destination when it is registered and has a task, sees
\* the signal with the task's id_destination_relay, frequency_transmission_relay
\* and id_antenna_destination_relay as id_receiver, frequency and
\* id_antenna_receiver; in every pass the signal has the id_transmitter and the
\* memory with which it was queued
C36_RelayRewriting ==
    [][MediumStep =>
        LET queued == signals_to_send(1)
            log == outcome'.log
        IN  \A j \in 1..Len(log) :
              /\ log[j].signal.id_transmitter = queued[log[j].object].id_transmitter
              /\ log[j].signal.memory = queued[log[j].object].memory
              /\ log[j].event = "relay" =>
                   LET listener == log[j].listener
                       destination == listener.id_destination_relay
                   IN  (Registered(destination) /\ listen_ether_tasks[destination] # <<>>)
                       => /\ j + 1 <= Len(log)
                          /\ log[j + 1].object = log[j].object
                          /\ log[j + 1].recipient = destination
                          /\ log[j + 1].signal.id_receiver = destination
                          /\ log[j + 1].signal.frequency
                                = listener.frequency_transmission_relay
                          /\ log[j + 1].signal.id_antenna_receiver
                                = listener.id_antenna_destination_relay
      ]_vars

\* a signal was relayed on another frequency and to another antenna id than it
\* was sent with, and the destination has received it
C36_Witness ==
    /\ AfterMediumStep
    /\ \E j \in 1..Len(outcome.log) :
          /\ outcome.log[j].event = "relay"
          /\ j + 1 <= Len(outcome.log)
          /\ outcome.log[j + 1].event = "deposit"
          /\ outcome.log[j + 1].recipient = outcome.log[j].listener.id_destination_relay
          /\ outcome.log[j + 1].signal.frequency # outcome.log[j].signal.frequency


(***************************************************************************)
(* Properties of repeated assignments                                      *)
(***************************************************************************)

\* C37 as stated: assign_device_as_repeater called again in the same tick with
\* the same devices and destination, the inbound device being in RELAYING_IN
\* and the outbound device in RELAYING_OUT and the frequencies as they are,
\* returns True, and list_relay_channel holds the channel once
C37_AsStated ==
    [][\A a \in AssignRepeaterArgs :
        LET relay_channel == RelayChannel(a[1], a[2], a[3], a[4], a[7])
        IN  (/\ InList(relay_channel, list_relay_channel[1])
             /\ antennas[1][a[1]].communication_mode = "RELAYING_IN"
             /\ antennas[1][a[2]].communication_mode = "RELAYING_OUT"
             /\ a[5] \in {None, antennas[1][a[1]].frequency}
             /\ a[6] \in {None, antennas[1][a[2]].frequency}
             /\ assign_device_as_repeater(1, a[1], a[2], a[3], a[4], a[5], a[6], a[7]))
            => /\ outcome'.raised = "none"
               /\ outcome'.returned = "True"
               /\ Count(relay_channel, list_relay_channel'[1]) = 1
      ]_vars


(***************************************************************************)
(* A chain of two relays: consumer 1 sends to 2, 2 relays to 3, 3 relays   *)
(* to 4, 4 listens; the consumers are registered in any order              *)
(***************************************************************************)

MaxChainCalls == 9

\* register_consumer: frequency, id_consumer
ChainRegisterArgs == {<<ConsumerFrequency(id), id>> : id \in Ids}

\* send_signal: the consumer, id_receiver, frequency, id_antenna_receiver
ChainSendArgs == {<<1, 2, MHz(100), 0>>}

\* i_am_repeater: the consumer, id_destination_relay, id_antenna_receiver,
\* id_antenna_destination_relay, frequency_recipiency,
\* frequency_transmission_relay, save_relayed_signals_locally_relay
ChainRelayArgs ==
    {<<2, 3, 0, 0, MHz(100), MHz(120), FALSE>>,
     <<3, 4, 0, 1, MHz(120), MHz(150), FALSE>>}

\* listen_ether: the consumer, id_antenna_receiver, frequency_recipiency
ChainListenArgs == {<<4, 1, MHz(150)>>, <<4, 1, MHz(120)>>}

InitChain == Constructed(<<>>)

NextChain ==
    \/ \E a \in ChainRegisterArgs :
            /\ HostCall(MaxChainCalls)
            /\ ~Registered(a[2])
            /\ register_consumer(a[1], a[2])
    \/ \E a \in ChainSendArgs :
            /\ HostCall(MaxChainCalls)
            /\ dict_id_receiver_signals_to_send[a[1]] = <<>>
            /\ SendSignal(a[1], a[2], MemoryBlock(121, 3, 4), a[3], a[4])
    \/ \E a \in ChainRelayArgs :
            /\ HostCall(MaxChainCalls)
            /\ listen_ether_tasks[a[1]] = <<>>
            /\ IAmRepeater(a[1], a[2], a[3], a[4], a[5], a[6], a[7])
    \/ \E a \in ChainListenArgs :
            /\ HostCall(MaxChainCalls)
            /\ ListenEther(a[1], a[2], a[3])
    \/ HostCall(MaxChainCalls) /\ MediumStep

SpecChain == InitChain /\ [][NextChain]_vars

\* the tasks of the chain are registered and consumer 1 has queued its signal
ChainReady ==
    /\ Outbox(1, 2) # <<>>
    /\ \E t \in 1..Len(listen_ether_tasks[2]) :
          listen_ether_tasks[2][t].id_destination_relay = 3
    /\ \E t \in 1..Len(listen_ether_tasks[3]) :
          listen_ether_tasks[3][t].id_destination_relay = 4
    /\ InList(ListenEtherTask(MHz(150), 1, None, None, None, FALSE), listen_ether_tasks[4])

\* C38: when consumer 1 has queued a signal for 2, 2 relays to 3, 3 relays to 4
\* and 4 listens on the frequency and the antenna of the second relay, all in
\* one tick, the one step of the medium puts the signal, with the memory and
\* the id_transmitter it was sent with, in consumer 4's
\* dict_frequency_signal_to_receive, whatever the order in which the four
\* consumers were registered
C38_MultiHop ==
    [][(ChainReady /\ MediumStep) =>
        /\ outcome'.raised = "none"
        /\ \E i \in 1..Len(DictGet(dict_frequency_signal_to_receive'[4], 150)) :
              LET signal == DictGet(dict_frequency_signal_to_receive'[4], 150)[i]
              IN  /\ signal.memory = MemoryBlock(121, 3, 4)
                  /\ signal.id_transmitter = 1
                  /\ signal.id_receiver = 4
      ]_vars

\* the chain has delivered with the consumers registered from the last of the
\* chain to the first
C38_Witness ==
    /\ AfterMediumStep
    /\ consumers = <<4, 3, 2, 1>>
    /\ outcome.calls = 3
    /\ DictGet(dict_frequency_signal_to_receive[4], 150) # <<>>


(***************************************************************************)
(* Properties of a local step that raises                                  *)
(***************************************************************************)

\* C39 as stated: when the local step raises because a staged signal needs
\* more than the transmit capacity of its device, the consumer's signals to
\* send and its listen tasks are as they were before the step: no other signal
\* of the step has been queued
C39_AsStated ==
    [][\A duration \in Durations :
        (outcome'.raised = "capacity" /\ imitation_step(1, duration)) =>
           /\ dict_id_receiver_signals_to_send'[1] = dict_id_receiver_signals_to_send[1]
           /\ listen_ether_tasks'[1] = listen_ether_tasks[1]
      ]_vars


\* C40 as stated: an assignment that succeeds (it does not raise: the mode of
\* the device is set and the channel recorded) returns True, whichever of
\* assign_device_as_transmitter, assign_device_as_receiver and
\* assign_device_as_repeater it is
C40_AsStated ==
    (outcome.op \in AssignOps /\ outcome.raised = "none") => outcome.returned = "True"

====
